---- MODULE Spec2Model ----
(***************************************************************************)
(* State-machine model of the four rate limiters of rate_limiter/ and of   *)
(* the Redis store they share.                                             *)
(*                                                                         *)
(* Time is counted in whole ticks (one tick = one second of time.time()).  *)
(* Token and queue levels are real numbers in the code; here they are      *)
(* exact multiples of 1/Unit, so a level is an integer number of           *)
(* sub-units, a rate is a number of sub-units per tick, and a cost of c    *)
(* is c * Unit sub-units.  The arithmetic is exact: floating-point         *)
(* rounding is not modelled.  redis-py writes a float with repr() and the  *)
(* code reads it back with float(), which returns the same value, so a     *)
(* stored level is the number that was written.                            *)
(*                                                                         *)
(* Every Redis command is atomic in the store.  The sequential             *)
(* specifications (SpecFW, SpecSW, SpecTB, SpecLB) run whole calls of one  *)
(* caller one after another; the concurrent ones (SpecFWC, SpecSWC,        *)
(* SpecTBC, SpecLBC) interleave the Redis commands of several callers.     *)
(* SpecTBU and SpecLBU are unit-cost runs of one client, SpecCost lets the  *)
(* cost be any integer, SpecAny runs any one of the four limiters, and     *)
(* SpecFWH runs concurrent callers over a store with an old history list.  *)
(* SpecFWL reads the history list back, SpecClients makes the calls under  *)
(* either client id, SpecFWB is the fixed window without reset.  In        *)
(* SpecTBE and SpecFWE a Redis command may raise instead of answering; a   *)
(* command that raises has not been applied.  SpecLive adds reset and      *)
(* fair scheduling of the callers, for the termination of the calls.       *)
(* SpecFWM reads back a history list holding an entry that is not JSON,    *)
(* SpecCap lets the dashboard assign a new capacity between calls,         *)
(* SpecSeed constructs a bucket limiter over an empty or a seeded store,   *)
(* and SpecTBR is the token bucket of one client without reset.            *)
(***************************************************************************)
EXTENDS Integers, Sequences, FiniteSets, TLC

VARIABLES
    now,            \* the clock read by time.time()
    max_requests,   \* FixedWindowRateLimiter / SlidingWindowLimiter .max_requests
    window_size,    \* FixedWindowRateLimiter / SlidingWindowLimiter .window_size
    capacity,       \* TokenBucketLimiter / LeakyBucketLimiter .capacity (tokens)
    refill_rate,    \* TokenBucketLimiter.refill_rate (sub-units per tick)
    leak_rate,      \* LeakyBucketLimiter.leak_rate (sub-units per tick)
    fw_keys,        \* Redis keys rate_limit:<window_start> -> [count, expire_at]
    ss,             \* Redis sorted set sliding_window_timestamps: {[member, score]}
    ss_ttl,         \* expiry time of sliding_window_timestamps, or NoTTL
    tokens,         \* Redis key token_bucket_tokens: Val(sub-units) or Missing
    last_refill,    \* Redis key token_bucket_last_refill: Val(time) or Missing
    queue_size,     \* Redis key leaky_bucket_queue_size: Val(sub-units) or Missing
    last_leak,      \* Redis key leaky_bucket_last_leak: Val(time) or Missing
    history,        \* Redis lists: history key -> list of records, newest first
    ret,            \* what the most recent completed call returned
    ncalls,         \* number of calls made so far (bounds the run)
    pre,            \* observer: the store content the most recent call started from
    obs,            \* observer: bookkeeping the properties are stated against
    run,            \* observer: the limiter class of this run and the call made
                    \* before the most recent one
    pc,             \* concurrent callers: position of each caller in its call
    loc             \* concurrent callers: local variables of each caller

vars == <<now, max_requests, window_size, capacity, refill_rate, leak_rate,
          fw_keys, ss, ss_ttl, tokens, last_refill, queue_size, last_leak,
          history, ret, ncalls, pre, obs, run,
          pc, loc>>

-----------------------------------------------------------------------------
(* Bounds of the model *)

MaxTime == 6            \* last tick of a sequential run
MaxCalls == 4           \* calls of a fixed / sliding window run
MaxBucketCalls == 3     \* calls of a token / leaky bucket run
MaxUnitCalls == 5       \* calls of a unit-cost timing run
MaxCostCalls == 2       \* calls of a run with arbitrary costs
MaxAnyCalls == 4        \* calls of a run of any one of the four limiters
MaxHistoryCalls == 2    \* calls of a run over a store with an old history list
NCallers == 3           \* concurrent callers
MaxRunTime == 1         \* last tick of a concurrent run
MaxLimit == 2           \* largest max_requests / capacity
Unit == 3               \* sub-units per token or queue slot

WindowSizes == {2, 3}           \* window_size, in ticks
Rates == {1, 2}                 \* refill_rate / leak_rate, sub-units per tick
Costs == {1, 2}                 \* cost of a call of a sequential run
Clients == {"Alice", "Bob"}     \* client_id of a call of a sequential run
RunCosts == {1}                 \* cost of a call of a concurrent run
AnyCosts == {-1, 0, 1}          \* cost of a call of a run with arbitrary costs

-----------------------------------------------------------------------------
(* Values shared by the four limiters *)

\* a key that is not in the store reads as Missing, a key holding v as Val(v)
Missing == <<>>
Val(v) == <<v>>

\* a key without expiry (redis reports its TTL as -1)
NoTTL == -1
NoRet == [op |-> "none", time |-> -1]

\* observer: a run of the limiter class whose get_status names itself
\* algorithm; no call has been made yet
RunOf(algorithm) == [algorithm |-> algorithm, prev_op |-> "none", prev_time |-> -1]

\* observer: the call that has just returned becomes the previous one
RunAfter == [run EXCEPT !.prev_op = ret.op, !.prev_time = ret.time]

Min(a, b) == IF a <= b THEN a ELSE b
Max(a, b) == IF a >= b THEN a ELSE b

FWHistoryKey == "rate_limit_history"
SWHistoryKey == "sliding_window_history"
TBHistoryKey == "token_bucket_history"
LBHistoryKey == "leaky_bucket_history"
HistoryKeys == {FWHistoryKey, SWHistoryKey, TBHistoryKey, LBHistoryKey}

\* variant: redis RPUSH, the new element becomes the tail of the list
RPush(list, rec) == list \o <<rec>>

\* redis LPUSH: the new element becomes the head of the list
LPush(list, rec) == <<rec>> \o list

\* redis LTRIM list start stop (0-based, inclusive), for 0 <= start <= stop
LTrim(list, start, stop) == SubSeq(list, start + 1, Min(Len(list), stop + 1))

\* redis LRANGE list start stop (0-based, inclusive), for 0 <= start <= stop
LRange(list, start, stop) == SubSeq(list, start + 1, Min(Len(list), stop + 1))

HistoryKeep == 50
HistoryShow == 20

\* _add_history_to_redis: lpush the record, then ltrim the list to 0..49
AddHistory(h, key, rec) ==
    [h EXCEPT ![key] = LTrim(LPush(@, rec), 0, HistoryKeep - 1)]

\* request_history: the first 20 entries of the list
RequestHistory(h, key) == LRange(h[key], 0, HistoryShow - 1)

\* variant: the list survives the reset
DeleteKept(h, key) == h

\* delete(key): the list is gone, which reads as the empty list
Delete(h, key) == [h EXCEPT ![key] = <<>>]

EmptyHistory == [k \in HistoryKeys |-> <<>>]

\* the clock advances; the store drops the keys whose expiry time has come
PurgeKeys(keys, t) ==
    [k \in {x \in DOMAIN keys : keys[x].expire_at > t} |-> keys[k]]

SSExpired(ttl, t) == ttl # NoTTL /\ ttl <= t

Tick ==
    /\ now < MaxTime
    /\ now' = now + 1
    /\ fw_keys' = PurgeKeys(fw_keys, now + 1)
    /\ ss' = IF SSExpired(ss_ttl, now + 1) THEN {} ELSE ss
    /\ ss_ttl' = IF SSExpired(ss_ttl, now + 1) THEN NoTTL ELSE ss_ttl
    /\ UNCHANGED <<max_requests, window_size, capacity, refill_rate, leak_rate,
                   tokens, last_refill, queue_size, last_leak, history, ret, run,
                   ncalls, pre, obs, pc, loc>>

-----------------------------------------------------------------------------
(* FixedWindowRateLimiter, one caller *)

\* variant: the window starts at the clock reading
WindowStartUnaligned(t, w) == t

\* current_window_start = int(current_time // window_size) * window_size
WindowStart(t, w) == (t \div w) * w

\* variant: the count as it was before the increment
IncrResultBefore(keys, k) == IF k \in DOMAIN keys THEN keys[k].count ELSE 0

\* pipe.incr(window_key): the post-increment count, 1 for a key that is not there
IncrResult(keys, k) == IF k \in DOMAIN keys THEN keys[k].count + 1 ELSE 1

\* variant: an expiry that falls short of the window
IncrExpireShort(keys, k, t, w) ==
    [x \in DOMAIN keys \cup {k} |->
        IF x = k THEN [count |-> IncrResult(keys, k), expire_at |-> t + w - 1]
                 ELSE keys[x]]

\* variant: the expiry is set when the key is created and not refreshed
IncrExpireOnCreate(keys, k, t, w) ==
    [x \in DOMAIN keys \cup {k} |->
        IF x = k THEN [count |-> IncrResult(keys, k),
                       expire_at |-> IF k \in DOMAIN keys THEN keys[k].expire_at
                                                           ELSE t + w + 1]
                 ELSE keys[x]]

\* pipe.incr(window_key); pipe.expire(window_key, int(window_size) + 1)
IncrExpire(keys, k, t, w) ==
    [x \in DOMAIN keys \cup {k} |->
        IF x = k THEN [count |-> IncrResult(keys, k), expire_at |-> t + w + 1]
                 ELSE keys[x]]

\* variant: strict comparison
FWAllowedStrict(count, limit) == count < limit

\* allowed = current_count <= self.max_requests
FWAllowed(count, limit) == count <= limit

\* redis_client.get(window_key): int(value) if the key is there, else 0
FWGetCount(keys, k) == IF k \in DOMAIN keys THEN keys[k].count ELSE 0

\* history_record; its 'time' field is the same instant as 'timestamp', printed
\* as HH:MM:SS, and is left out, as it is in the other limiters' records
FWRecord(client, allowed, count, t) ==
    [user |-> client, status |-> allowed, count_after |-> count,
     window_reset |-> (count = 1), timestamp |-> t]

FWUnchanged ==
    UNCHANGED <<max_requests, window_size, capacity, refill_rate, leak_rate,
                ss, ss_ttl, tokens, last_refill, queue_size, last_leak, pc, loc>>

\* observer: which aligned window the call falls in and how many is_allowed
\* calls that window has received since the last reset
FWObserve(o, t, w) ==
    LET k == CHOOSE i \in 0..t : i * w <= t /\ t < (i + 1) * w
    IN  [win |-> k, n |-> IF o.win = k THEN o.n + 1 ELSE 1]

\* the healthy-store path of is_allowed; the clock readings of one call
\* (is_allowed, _add_history_to_redis) are the same tick
FW_IsAllowedCall(client) ==
    /\ LET t == now
           key == WindowStart(t, window_size)
           count == IncrResult(fw_keys, key)
           allowed == FWAllowed(count, max_requests)
       IN  /\ fw_keys' = IncrExpire(fw_keys, key, t, window_size)
           /\ history' = AddHistory(history, FWHistoryKey,
                                    FWRecord(client, allowed, count, t))
           /\ ret' = [op |-> "is_allowed", allowed |-> allowed,
                      window_reset |-> (count = 1), time |-> t]
           /\ obs' = FWObserve(obs, t, window_size)
    /\ pre' = fw_keys
    /\ ncalls' = ncalls + 1
    /\ run' = RunAfter
    /\ UNCHANGED now
    /\ FWUnchanged

FW_IsAllowed(client) ==
    /\ ncalls < MaxCalls
    /\ FW_IsAllowedCall(client)

FW_GetStatusCall ==
    /\ LET t == now
           key == WindowStart(t, window_size)
           count == FWGetCount(fw_keys, key)
       IN  ret' = [op |-> "get_status", current_count |-> count,
                   max_requests |-> max_requests,
                   remaining |-> Max(0, max_requests - count),
                   time_remaining |-> Max(0, key + window_size - t),
                   time |-> t]
    /\ pre' = fw_keys
    /\ ncalls' = ncalls + 1
    /\ run' = RunAfter
    /\ UNCHANGED <<now, fw_keys, history, obs>>
    /\ FWUnchanged

FW_GetStatus ==
    /\ ncalls < MaxCalls
    /\ FW_GetStatusCall

\* reset: delete every rate_limit:* key, then the history list
FW_ResetCall ==
    /\ fw_keys' = <<>>
    /\ history' = Delete(history, FWHistoryKey)
    /\ ret' = [op |-> "reset", time |-> now]
    /\ obs' = [win |-> -1, n |-> 0]
    /\ pre' = fw_keys
    /\ ncalls' = ncalls + 1
    /\ run' = RunAfter
    /\ UNCHANGED now
    /\ FWUnchanged

FW_Reset ==
    /\ ncalls < MaxCalls
    /\ FW_ResetCall

InitCommon ==
    /\ now = 0
    /\ fw_keys = <<>>
    /\ ss = {}
    /\ ss_ttl = NoTTL
    /\ tokens = Missing
    /\ last_refill = Missing
    /\ queue_size = Missing
    /\ last_leak = Missing
    /\ history = EmptyHistory
    /\ ret = NoRet
    /\ ncalls = 0
    /\ pre = Missing

InitFW ==
    /\ run = RunOf("Fixed Window")
    /\ InitCommon
    /\ pc = <<>>
    /\ loc = <<>>
    /\ max_requests \in 1..MaxLimit
    /\ window_size \in WindowSizes
    /\ capacity = 0
    /\ refill_rate = 0
    /\ leak_rate = 0
    /\ obs = [win |-> -1, n |-> 0]

NextFW ==
    \/ Tick
    \/ \E c \in Clients : FW_IsAllowed(c)
    \/ FW_GetStatus
    \/ FW_Reset

SpecFW == InitFW /\ [][NextFW]_vars

\* the index k of the aligned window [k * w, (k + 1) * w) that holds time t
WindowIndex(t, w) == CHOOSE i \in 0..t : i * w <= t /\ t < (i + 1) * w

FWLastRecord == Head(history[FWHistoryKey])

\* C1: among the is_allowed calls made inside one aligned window, the first
\* max_requests are admitted and every later one is denied; the first call of
\* a window is admitted with count 1 whatever the earlier windows received.
C1_FirstAdmittedRestDenied ==
    ret.op = "is_allowed" =>
        /\ ret.allowed = (obs.n <= max_requests)
        /\ (obs.n = 1 => ret.allowed /\ FWLastRecord.count_after = 1
                                     /\ ret.window_reset)

\* C1 witness: the first call of a window is admitted with count 1 while the
\* store still holds an earlier window's counter that ran over the limit
C1_Witness ==
    /\ ret.op = "is_allowed"
    /\ obs.n = 1
    /\ ret.allowed
    /\ FWLastRecord.count_after = 1
    /\ \E k \in DOMAIN pre : pre[k].count > max_requests

\* C2: every is_allowed call adds exactly 1 to the counter of its window,
\* admitted or not, and is admitted iff the post-increment count is at most
\* max_requests; after k calls in the current window the stored count and
\* get_status current_count are k, and remaining is max(0, max_requests - k).
C2_CountsEveryone ==
    LET k == WindowIndex(now, window_size)
        n == IF obs.win = k THEN obs.n ELSE 0
    IN  /\ n > 0 => /\ k * window_size \in DOMAIN fw_keys
                    /\ fw_keys[k * window_size].count = n
        /\ n = 0 => k * window_size \notin DOMAIN fw_keys
        /\ ret.op = "is_allowed" =>
               /\ FWLastRecord.count_after = obs.n
               /\ ret.allowed = (FWLastRecord.count_after <= max_requests)
        /\ (ret.op = "get_status" /\ ret.time = now) =>
               /\ ret.current_count = n
               /\ ret.remaining = (IF n >= max_requests THEN 0
                                                        ELSE max_requests - n)

\* C2 witness: a status read after more calls than the limit in one window
C2_Witness ==
    /\ ret.op = "get_status"
    /\ ret.time = now
    /\ ret.current_count > max_requests
    /\ ret.remaining = 0

-----------------------------------------------------------------------------
(* SlidingWindowLimiter, one caller *)

\* variant: the upper end of the range is not removed
ZRemRangeByScoreExclusive(set, lo, hi) ==
    {e \in set : ~(lo <= e.score /\ e.score < hi)}

\* zremrangebyscore(key, 0, threshold): what is left of the set
ZRemRangeByScore(set, lo, hi) == {e \in set : ~(lo <= e.score /\ e.score <= hi)}

ZCard(set) == Cardinality(set)

\* zadd(key, {member: score}): a member already there gets the new score
ZAdd(set, m, sc) == {e \in set : e.member # m} \cup {[member |-> m, score |-> sc]}

\* variant: the member name carries no nanosecond reading
UniqueTimestampNoNs(t, client, ns) == <<t, client, 0>>

\* unique_timestamp = f"{current_time:.6f}_{client_id}_{time.time_ns()}"; the
\* nanosecond clock differs from one call to the next and is modelled by the
\* call's serial number
UniqueTimestamp(t, client, ns) == <<t, client, ns>>

\* variant: the threshold lies two windows back, as the key expiry does
CleanThresholdDouble(t, w) == t - 2 * w

\* clean_threshold = current_time - self.window_size
CleanThreshold(t, w) == t - w

\* if current_count < self.max_requests
SWAllowed(count, limit) == count < limit

\* the set as the store holds it at time t: gone when its expiry time has come
SSLive(set, ttl, t) == IF SSExpired(ttl, t) THEN {} ELSE set
TTLLive(ttl, t) == IF SSExpired(ttl, t) THEN NoTTL ELSE ttl

\* if exists(key): expire(key, int(window_size * 2)); a sorted set that has
\* become empty is no key any more
SWExpire(set, ttl, t, w) ==
    IF set = {} THEN NoTTL ELSE t + 2 * w

SWRecord(client, allowed, count, t) ==
    [user |-> client, status |-> allowed, count_after |-> count,
     timestamp |-> t, algorithm |-> "sliding_window"]

SWUnchanged ==
    UNCHANGED <<max_requests, window_size, capacity, refill_rate, leak_rate,
                fw_keys, tokens, last_refill, queue_size, last_leak, pc, loc>>

\* lag: the time that passes between time.time() in is_allowed and time.time()
\* in _remove_old_requests
SW_IsAllowedCall(client, lag) ==
    /\ now + lag <= MaxTime
    /\ LET current_time == now
           prune_time == now + lag
           live == SSLive(ss, ss_ttl, prune_time)
           pruned == ZRemRangeByScore(live, 0,
                                      CleanThreshold(prune_time, window_size))
           removed_count == ZCard(live) - ZCard(pruned)
           ttl == IF pruned = {} THEN NoTTL
                  ELSE SWExpire(pruned, TTLLive(ss_ttl, prune_time),
                                prune_time, window_size)
           current_count == ZCard(pruned)
           allowed == SWAllowed(current_count, max_requests)
           final == IF allowed
                    THEN ZAdd(pruned,
                              UniqueTimestamp(current_time, client, ncalls),
                              current_time)
                    ELSE pruned
       IN  /\ ss' = final
           /\ ss_ttl' = ttl
           /\ history' = AddHistory(history, SWHistoryKey,
                             SWRecord(client, allowed, ZCard(final), current_time))
           /\ ret' = [op |-> "is_allowed", allowed |-> allowed,
                      window_requests |-> ZCard(final),
                      removed_requests |-> removed_count,
                      time |-> current_time]
           /\ obs' = [prune_time |-> prune_time]
           /\ now' = prune_time
    /\ pre' = ss
    /\ ncalls' = ncalls + 1
    /\ run' = RunAfter
    /\ SWUnchanged

SW_IsAllowed(client, lag) ==
    /\ ncalls < MaxCalls
    /\ SW_IsAllowedCall(client, lag)

SW_GetStatusCall ==
    /\ LET current_time == now
           pruned == ZRemRangeByScore(ss, 0,
                                      CleanThreshold(current_time, window_size))
           total_requests == ZCard(pruned)
       IN  /\ ss' = pruned
           /\ ss_ttl' = IF pruned = {} THEN NoTTL ELSE ss_ttl
           /\ ret' = [op |-> "get_status", current_count |-> total_requests,
                      max_requests |-> max_requests,
                      remaining |-> Max(0, max_requests - total_requests),
                      time_remaining |-> 0, time |-> current_time]
           /\ obs' = [prune_time |-> current_time]
    /\ pre' = ss
    /\ ncalls' = ncalls + 1
    /\ run' = RunAfter
    /\ UNCHANGED <<now, history>>
    /\ SWUnchanged

SW_GetStatus ==
    /\ ncalls < MaxCalls
    /\ SW_GetStatusCall

\* reset: delete the timestamp set and the history list
SW_ResetCall ==
    /\ ss' = {}
    /\ ss_ttl' = NoTTL
    /\ history' = Delete(history, SWHistoryKey)
    /\ ret' = [op |-> "reset", time |-> now]
    /\ obs' = [prune_time |-> now]
    /\ pre' = ss
    /\ ncalls' = ncalls + 1
    /\ run' = RunAfter
    /\ UNCHANGED now
    /\ SWUnchanged

SW_Reset ==
    /\ ncalls < MaxCalls
    /\ SW_ResetCall

InitSW ==
    /\ run = RunOf("Sliding Window")
    /\ InitCommon
    /\ pc = <<>>
    /\ loc = <<>>
    /\ max_requests \in 1..MaxLimit
    /\ window_size \in WindowSizes
    /\ capacity = 0
    /\ refill_rate = 0
    /\ leak_rate = 0
    /\ obs = [prune_time |-> 0]

Lags == {0, 1}

NextSW ==
    \/ Tick
    \/ \E c \in Clients, lag \in Lags : SW_IsAllowed(c, lag)
    \/ SW_GetStatus
    \/ SW_Reset

SpecSW == InitSW /\ [][NextSW]_vars

\* C3: is_allowed at time t removes every stored timestamp <= t - window_size
\* (an entry exactly window_size old is removed); it is admitted iff fewer than
\* max_requests entries remain, and then exactly one entry with score t is
\* inserted; otherwise the set stays as the pruning left it.  The pruning
\* itself runs at the clock reading of _remove_old_requests, which is t or
\* later: what remains are the entries younger than window_size at that reading.
C3_PruneCountInsert ==
    (ret.op = "is_allowed" /\ now = obs.prune_time) =>
        LET t == ret.time
            remaining == {e \in pre : e.score > obs.prune_time - window_size}
            added == ss \ pre
        IN  /\ \A e \in ss : e.score > t - window_size
            /\ \A e \in pre : e.score <= t - window_size => e \notin ss
            /\ ret.allowed = (Cardinality(remaining) < max_requests)
            /\ ret.allowed =>
                  /\ Cardinality(added) = 1
                  /\ \A e \in added : e.score = t
                  /\ ss \ added = remaining
                  /\ Cardinality(ss) = Cardinality(remaining) + 1
            /\ ~ret.allowed => ss = remaining

\* C3 witness: a call that finds an entry exactly window_size old beside a
\* younger one, removes the old one and is admitted
C3_Witness ==
    /\ ret.op = "is_allowed"
    /\ now = obs.prune_time
    /\ ret.allowed
    /\ \E e \in pre : e.score = ret.time - window_size /\ e \notin ss
    /\ \E e \in pre : e \in ss
    /\ Cardinality(ss) = max_requests

\* the window a call started from is full of requests admitted at time t
SWFullAt(set, t) ==
    /\ Cardinality(set) = max_requests
    /\ \A e \in set : e.score = t

\* C14: for one caller, once max_requests calls have been admitted at time t,
\* a further call made at a time t' with t < t' < t + window_size is denied
\* and a further call made at a time t' > t + window_size is admitted.  A
\* call reads the clock twice (is_allowed, then _remove_old_requests); it is
\* made before t + window_size when both readings are.
C14_ExpiryTiming ==
    ret.op = "is_allowed" =>
        \A t \in 0..MaxTime :
            SWFullAt(pre, t) =>
                /\ (t < ret.time /\ obs.prune_time < t + window_size)
                       => ~ret.allowed
                /\ ret.time > t + window_size => ret.allowed

\* C14 witness: the window was filled at time t; the call before the last
\* one came inside the window and was denied, the last one came after
\* t + window_size and was admitted
C14_Witness ==
    /\ ret.op = "is_allowed"
    /\ ret.allowed
    /\ Len(history[SWHistoryKey]) >= 2 + max_requests
    /\ \E t \in 0..MaxTime :
           /\ SWFullAt(pre, t)
           /\ ret.time > t + window_size
           /\ history[SWHistoryKey][1].status
           /\ history[SWHistoryKey][1].timestamp = ret.time
           /\ ~history[SWHistoryKey][2].status
           /\ history[SWHistoryKey][2].timestamp > t
           /\ history[SWHistoryKey][2].timestamp < t + window_size
           /\ \A i \in 3..(2 + max_requests) :
                  /\ history[SWHistoryKey][i].status
                  /\ history[SWHistoryKey][i].timestamp = t

-----------------------------------------------------------------------------
(* TokenBucketLimiter, one caller *)

\* round(num / den, 2) in hundredths, for num >= 0 and den > 0: the nearest
\* hundredth, an exact tie going to the even one
Round2(num, den) ==
    LET q == (num * 100) \div den
        r == (num * 100) % den
    IN  IF 2 * r < den THEN q
        ELSE IF 2 * r > den THEN q + 1
        ELSE IF q % 2 = 0 THEN q ELSE q + 1

\* float(redis_client.get(key) or default)
GetFloat(val, default) == IF val = Missing THEN default ELSE val[1]

\* variant: the elapsed time is not credited
RefillNoElapsed(cur, last, t, rate, cap) == Min(cap * Unit, cur)

\* variant: no clamp at capacity
RefillUnclamped(cur, last, t, rate, cap) == cur + (t - last) * rate

\* new_tokens = min(capacity, current_tokens + time_passed * refill_rate)
\* variant: only whole tokens are credited
RefillWholeTokens(cur, last, t, rate, cap) ==
    Min(cap * Unit, cur + (((t - last) * rate) \div Unit) * Unit)

Refill(cur, last, t, rate, cap) == Min(cap * Unit, cur + (t - last) * rate)

\* variant: strict comparison
TBAllowedStrict(cur, cost) == cur > cost * Unit

\* if current_tokens >= cost
TBAllowed(cur, cost) == cur >= cost * Unit

\* new_tokens = current_tokens - cost
Consume(cur, cost) == cur - cost * Unit

TBRecord(client, allowed, tokens_after, cost, t) ==
    [user |-> client, status |-> allowed,
     count_after |-> Round2(tokens_after, Unit), cost |-> cost,
     timestamp |-> t, algorithm |-> "token_bucket"]

TBUnchanged ==
    UNCHANGED <<max_requests, window_size, capacity, refill_rate, leak_rate,
                fw_keys, ss, ss_ttl, queue_size, last_leak, pc, loc>>

\* the clock readings of one call (is_allowed, _refill_tokens) are the same tick
TB_IsAllowedCall(client, cost) ==
    /\ LET current_time == now
           current_tokens == Refill(GetFloat(tokens, 0),
                                    GetFloat(last_refill, current_time),
                                    current_time, refill_rate, capacity)
           allowed == TBAllowed(current_tokens, cost)
           final_tokens == IF allowed THEN Consume(current_tokens, cost)
                                      ELSE current_tokens
       IN  /\ tokens' = Val(final_tokens)
           /\ last_refill' = Val(current_time)
           /\ history' = AddHistory(history, TBHistoryKey,
                             TBRecord(client, allowed, final_tokens, cost,
                                      current_time))
           /\ ret' = [op |-> "is_allowed", allowed |-> allowed,
                      cost |-> IF allowed THEN cost ELSE 0,
                      tokens_remaining |-> final_tokens, time |-> current_time]
           /\ obs' = [refilled |-> current_tokens, cost |-> cost]
    /\ pre' = [tokens |-> tokens, last_refill |-> last_refill]
    /\ ncalls' = ncalls + 1
    /\ run' = RunAfter
    /\ UNCHANGED now
    /\ TBUnchanged

TB_IsAllowed(client, cost) ==
    /\ ncalls < MaxBucketCalls
    /\ TB_IsAllowedCall(client, cost)

TB_GetStatusCall ==
    /\ LET current_time == now
           current_tokens == Refill(GetFloat(tokens, 0),
                                    GetFloat(last_refill, current_time),
                                    current_time, refill_rate, capacity)
           tokens_needed_to_fill == capacity * Unit - current_tokens
       IN  /\ tokens' = Val(current_tokens)
           /\ last_refill' = Val(current_time)
           /\ ret' = [op |-> "get_status",
                      current_tokens |-> Round2(current_tokens, Unit),
                      capacity |-> capacity, refill_rate |-> refill_rate,
                      time_to_fill |-> IF refill_rate > 0
                                       THEN Round2(tokens_needed_to_fill, refill_rate)
                                       ELSE 0,
                      time |-> current_time]
           /\ obs' = [refilled |-> current_tokens, cost |-> 0]
    /\ pre' = [tokens |-> tokens, last_refill |-> last_refill]
    /\ ncalls' = ncalls + 1
    /\ run' = RunAfter
    /\ UNCHANGED <<now, history>>
    /\ TBUnchanged

TB_GetStatus ==
    /\ ncalls < MaxBucketCalls
    /\ TB_GetStatusCall

\* reset: tokens back to capacity, last refill = now, history deleted
TB_ResetCall ==
    /\ tokens' = Val(capacity * Unit)
    /\ last_refill' = Val(now)
    /\ history' = Delete(history, TBHistoryKey)
    /\ ret' = [op |-> "reset", time |-> now]
    /\ obs' = [refilled |-> capacity * Unit, cost |-> 0]
    /\ pre' = [tokens |-> tokens, last_refill |-> last_refill]
    /\ ncalls' = ncalls + 1
    /\ run' = RunAfter
    /\ UNCHANGED now
    /\ TBUnchanged

TB_Reset ==
    /\ ncalls < MaxBucketCalls
    /\ TB_ResetCall

\* __init__ / _initialize_bucket over an empty store: a full bucket
InitTB ==
    /\ run = RunOf("Token Bucket")
    /\ now = 0
    /\ fw_keys = <<>>
    /\ ss = {}
    /\ ss_ttl = NoTTL
    /\ capacity \in 1..MaxLimit
    /\ refill_rate \in Rates
    /\ tokens = Val(capacity * Unit)
    /\ last_refill = Val(now)
    /\ queue_size = Missing
    /\ last_leak = Missing
    /\ history = EmptyHistory
    /\ ret = NoRet
    /\ ncalls = 0
    /\ pre = [tokens |-> Missing, last_refill |-> Missing]
    /\ obs = [refilled |-> capacity * Unit, cost |-> 0]
    /\ pc = <<>>
    /\ loc = <<>>
    /\ max_requests = 0
    /\ window_size = 0
    /\ leak_rate = 0

NextTB ==
    \/ Tick
    \/ \E c \in Clients, cost \in Costs : TB_IsAllowed(c, cost)
    \/ TB_GetStatus
    \/ TB_Reset

SpecTB == InitTB /\ [][NextTB]_vars

\* C4: is_allowed(cost) first catches the tokens up to now,
\* tokens = min(capacity, tokens + (now - lastRefill) * refillRate) and
\* lastRefill = now; it is admitted iff the caught-up tokens >= cost; on admit
\* the stored tokens are the caught-up value less cost, on deny the caught-up
\* value.
C4_CatchUpThenSpend ==
    ret.op = "is_allowed" =>
        LET grown == pre.tokens[1] + (ret.time - pre.last_refill[1]) * refill_rate
            caught == IF grown > capacity * Unit THEN capacity * Unit ELSE grown
            price == obs.cost * Unit
        IN  /\ obs.refilled = caught
            /\ last_refill = Val(ret.time)
            /\ ret.allowed = (caught >= price)
            /\ ret.allowed => tokens = Val(caught - price)
            /\ ~ret.allowed => tokens = Val(caught)
            /\ ret.tokens_remaining = tokens[1]

\* C4 witness: a call admitted with exactly the tokens it costs, after a refill
C4_Witness ==
    /\ ret.op = "is_allowed"
    /\ ret.allowed
    /\ ret.time > pre.last_refill[1]
    /\ obs.refilled > pre.tokens[1]
    /\ obs.refilled = obs.cost * Unit
    /\ tokens = Val(0)

\* C10: for one caller issuing is_allowed, get_status and reset calls under a
\* non-decreasing clock, every token level written to the store (by the
\* catch-up and by the deduction) is within 0 .. capacity.
C10_TokensInRange ==
    /\ tokens # Missing
    /\ 0 <= tokens[1] /\ tokens[1] <= capacity * Unit
    /\ 0 <= obs.refilled /\ obs.refilled <= capacity * Unit

\* C10 witness: a catch-up that the capacity cut short, the level having been
\* below capacity before
C10_Witness ==
    /\ ret.op \in {"is_allowed", "get_status"}
    /\ pre.tokens[1] < capacity * Unit
    /\ pre.tokens[1] + (ret.time - pre.last_refill[1]) * refill_rate
           > capacity * Unit
    /\ obs.refilled = capacity * Unit

\* C17: in every reachable state and after any amount of waiting, is_allowed
\* with a cost above capacity returns a normal denial and deducts nothing:
\* the stored level is the caught-up level.
C17_OversizedCostDenied ==
    (ret.op = "is_allowed" /\ obs.cost > capacity) =>
        /\ ~ret.allowed
        /\ ret.cost = 0
        /\ tokens = Val(obs.refilled)
        /\ ret.tokens_remaining = obs.refilled

\* C17 witness: an oversized call denied after a wait long enough to have
\* paid for it, had the catch-up not stopped at capacity
C17_Witness ==
    /\ ret.op = "is_allowed"
    /\ obs.cost > capacity
    /\ ~ret.allowed
    /\ pre.tokens[1] + (ret.time - pre.last_refill[1]) * refill_rate
           >= obs.cost * Unit
    /\ tokens = Val(capacity * Unit)

\* A timing run: one client makes unit-cost is_allowed calls on a freshly
\* built bucket while the clock advances.
TBU_IsAllowed ==
    /\ ncalls < MaxUnitCalls
    /\ TB_IsAllowedCall("Alice", 1)

NextTBU ==
    \/ Tick
    \/ TBU_IsAllowed

SpecTBU == InitTB /\ [][NextTBU]_vars

\* the k-th is_allowed call of the run, as the history list records it
\* (the list is newest first)
TBCall(k) == history[TBHistoryKey][Len(history[TBHistoryKey]) + 1 - k]

\* the first m calls of the run were made with no time between them
TBBurst(m) ==
    /\ Len(history[TBHistoryKey]) >= m
    /\ \A k \in 1..m : TBCall(k).timestamp = TBCall(1).timestamp

\* the run made a burst of capacity + 1 calls, then no call for exactly
\* 1 / refill_rate seconds (w ticks with w * refill_rate = one token), then
\* at least n more calls, all at that time
TBBurstWaitCalls(n) ==
    /\ TBBurst(capacity + 1)
    /\ Len(history[TBHistoryKey]) >= capacity + 1 + n
    /\ \E w \in 1..MaxTime :
           /\ w * refill_rate = Unit
           /\ \A k \in (capacity + 2)..(capacity + 1 + n) :
                  TBCall(k).timestamp = TBCall(1).timestamp + w

\* C15: starting from a full bucket of capacity C with no time elapsing
\* between calls, C unit-cost calls are admitted and call C + 1 is denied;
\* after waiting exactly 1 / refill_rate seconds with no call in between,
\* exactly one more unit-cost call is admitted and the next one, made
\* immediately, is denied.
C15_RefillTiming ==
    /\ \A m \in 1..capacity : TBBurst(m) => TBCall(m).status
    /\ TBBurst(capacity + 1) => ~TBCall(capacity + 1).status
    /\ TBBurstWaitCalls(1) => TBCall(capacity + 2).status
    /\ TBBurstWaitCalls(2) => ~TBCall(capacity + 3).status

\* C15 witness: the whole scenario has run: C admitted, one denied, the
\* wait, one admitted, one denied
C15_Witness ==
    /\ TBBurstWaitCalls(2)
    /\ Len(history[TBHistoryKey]) = capacity + 3
    /\ \A m \in 1..capacity : TBCall(m).status
    /\ ~TBCall(capacity + 1).status
    /\ TBCall(capacity + 2).status
    /\ ~TBCall(capacity + 3).status
    /\ tokens = Val(0)

-----------------------------------------------------------------------------
(* LeakyBucketLimiter, one caller *)

\* variant: the elapsed time is not drained
LeakNoElapsed(cur, last, t, rate) == Max(0, cur)

\* variant: no clamp at 0
LeakUnclamped(cur, last, t, rate) == cur - (t - last) * rate

\* new_queue_size = max(0, current_queue_size - time_passed * leak_rate)
Leak(cur, last, t, rate) == Max(0, cur - (t - last) * rate)

\* variant: strict comparison
LBAllowedStrict(cur, cost, cap) == cur + cost * Unit < cap * Unit

\* if current_queue_size + cost <= self.capacity
LBAllowed(cur, cost, cap) == cur + cost * Unit <= cap * Unit

\* new_queue_size = current_queue_size + cost
Enqueue(cur, cost) == cur + cost * Unit

LBRecord(client, allowed, queue_size_after, cost, t) ==
    [user |-> client, status |-> allowed,
     count_after |-> Round2(queue_size_after, Unit), cost |-> cost,
     timestamp |-> t, algorithm |-> "leaky_bucket"]

LBUnchanged ==
    UNCHANGED <<max_requests, window_size, capacity, refill_rate, leak_rate,
                fw_keys, ss, ss_ttl, tokens, last_refill, pc, loc>>

\* the clock readings of one call (is_allowed, _leak_requests) are the same tick
LB_IsAllowedCall(client, cost) ==
    /\ LET current_time == now
           current_queue_size == Leak(GetFloat(queue_size, 0),
                                      GetFloat(last_leak, current_time),
                                      current_time, leak_rate)
           allowed == LBAllowed(current_queue_size, cost, capacity)
           final_queue_size == IF allowed THEN Enqueue(current_queue_size, cost)
                                          ELSE current_queue_size
       IN  /\ queue_size' = Val(final_queue_size)
           /\ last_leak' = Val(current_time)
           /\ history' = AddHistory(history, LBHistoryKey,
                             LBRecord(client, allowed, final_queue_size, cost,
                                      current_time))
           /\ ret' = [op |-> "is_allowed", allowed |-> allowed,
                      queue_position |-> IF allowed THEN Val(final_queue_size)
                                                    ELSE Missing,
                      queue_size |-> final_queue_size, time |-> current_time]
           /\ obs' = [leaked |-> current_queue_size, cost |-> cost]
    /\ pre' = [queue_size |-> queue_size, last_leak |-> last_leak]
    /\ ncalls' = ncalls + 1
    /\ run' = RunAfter
    /\ UNCHANGED now
    /\ LBUnchanged

LB_IsAllowed(client, cost) ==
    /\ ncalls < MaxBucketCalls
    /\ LB_IsAllowedCall(client, cost)

LB_GetStatusCall ==
    /\ LET current_time == now
           current_queue_size == Leak(GetFloat(queue_size, 0),
                                      GetFloat(last_leak, current_time),
                                      current_time, leak_rate)
           time_to_empty == IF leak_rate > 0
                            THEN Round2(current_queue_size, leak_rate) ELSE 0
       IN  /\ queue_size' = Val(current_queue_size)
           /\ last_leak' = Val(current_time)
           /\ ret' = [op |-> "get_status",
                      current_count |-> Round2(current_queue_size, Unit),
                      max_requests |-> capacity,
                      remaining |-> Round2(capacity * Unit - current_queue_size,
                                           Unit),
                      time_remaining |-> time_to_empty,
                      queue_size |-> Round2(current_queue_size, Unit),
                      capacity |-> capacity, leak_rate |-> leak_rate,
                      time_to_empty |-> time_to_empty, time |-> current_time]
           /\ obs' = [leaked |-> current_queue_size, cost |-> 0]
    /\ pre' = [queue_size |-> queue_size, last_leak |-> last_leak]
    /\ ncalls' = ncalls + 1
    /\ run' = RunAfter
    /\ UNCHANGED <<now, history>>
    /\ LBUnchanged

LB_GetStatus ==
    /\ ncalls < MaxBucketCalls
    /\ LB_GetStatusCall

\* reset: queue size 0.0, last leak = now, history deleted
LB_ResetCall ==
    /\ queue_size' = Val(0)
    /\ last_leak' = Val(now)
    /\ history' = Delete(history, LBHistoryKey)
    /\ ret' = [op |-> "reset", time |-> now]
    /\ obs' = [leaked |-> 0, cost |-> 0]
    /\ pre' = [queue_size |-> queue_size, last_leak |-> last_leak]
    /\ ncalls' = ncalls + 1
    /\ run' = RunAfter
    /\ UNCHANGED now
    /\ LBUnchanged

LB_Reset ==
    /\ ncalls < MaxBucketCalls
    /\ LB_ResetCall

\* __init__ / _initialize_bucket over an empty store: an empty bucket
InitLB ==
    /\ run = RunOf("Leaky Bucket")
    /\ now = 0
    /\ fw_keys = <<>>
    /\ ss = {}
    /\ ss_ttl = NoTTL
    /\ capacity \in 1..MaxLimit
    /\ leak_rate \in Rates
    /\ queue_size = Val(0)
    /\ last_leak = Val(now)
    /\ tokens = Missing
    /\ last_refill = Missing
    /\ history = EmptyHistory
    /\ ret = NoRet
    /\ ncalls = 0
    /\ pre = [queue_size |-> Missing, last_leak |-> Missing]
    /\ obs = [leaked |-> 0, cost |-> 0]
    /\ pc = <<>>
    /\ loc = <<>>
    /\ max_requests = 0
    /\ window_size = 0
    /\ refill_rate = 0

NextLB ==
    \/ Tick
    \/ \E c \in Clients, cost \in Costs : LB_IsAllowed(c, cost)
    \/ LB_GetStatus
    \/ LB_Reset

SpecLB == InitLB /\ [][NextLB]_vars

\* C5: is_allowed(cost) first catches the queue up to now,
\* queueLevel = max(0, queueLevel - (now - lastLeak) * leakRate) and
\* lastLeak = now; it is admitted iff queueLevel + cost <= capacity; on admit
\* the stored level is the caught-up value plus cost, on deny the caught-up
\* value.
C5_CatchUpThenEnqueue ==
    ret.op = "is_allowed" =>
        LET drained == pre.queue_size[1]
                         - (ret.time - pre.last_leak[1]) * leak_rate
            caught == IF drained < 0 THEN 0 ELSE drained
            price == obs.cost * Unit
        IN  /\ obs.leaked = caught
            /\ last_leak = Val(ret.time)
            /\ ret.allowed = (caught + price <= capacity * Unit)
            /\ ret.allowed => queue_size = Val(caught + price)
            /\ ~ret.allowed => queue_size = Val(caught)
            /\ ret.queue_size = queue_size[1]

\* C5 witness: a call that fills the bucket to exactly its capacity after a
\* partial drain
C5_Witness ==
    /\ ret.op = "is_allowed"
    /\ ret.allowed
    /\ ret.time > pre.last_leak[1]
    /\ 0 < obs.leaked /\ obs.leaked < pre.queue_size[1]
    /\ queue_size = Val(capacity * Unit)

\* C11: for one caller issuing is_allowed (cost > 0), get_status and reset
\* calls under a non-decreasing clock, every queue level written to the store
\* (by the drain and by the enqueue) is within 0 .. capacity; the drain never
\* leaves it negative.
C11_QueueInRange ==
    /\ queue_size # Missing
    /\ 0 <= queue_size[1] /\ queue_size[1] <= capacity * Unit
    /\ 0 <= obs.leaked /\ obs.leaked <= capacity * Unit

\* C11 witness: a drain that the floor at 0 cut short, the queue having held
\* requests before
C11_Witness ==
    /\ ret.op \in {"is_allowed", "get_status"}
    /\ pre.queue_size[1] > 0
    /\ pre.queue_size[1] - (ret.time - pre.last_leak[1]) * leak_rate < 0
    /\ obs.leaked = 0

\* A timing run: one client makes unit-cost is_allowed calls on a freshly
\* built bucket while the clock advances.
LBU_IsAllowed ==
    /\ ncalls < MaxUnitCalls
    /\ LB_IsAllowedCall("Alice", 1)

NextLBU ==
    \/ Tick
    \/ LBU_IsAllowed

SpecLBU == InitLB /\ [][NextLBU]_vars

\* the k-th is_allowed call of the run, as the history list records it
LBCall(k) == history[LBHistoryKey][Len(history[LBHistoryKey]) + 1 - k]

\* the first m calls of the run were made with no time between them
LBBurst(m) ==
    /\ Len(history[LBHistoryKey]) >= m
    /\ \A k \in 1..m : LBCall(k).timestamp = LBCall(1).timestamp

\* the run made a burst of capacity + 1 calls, then no call for exactly
\* 1 / leak_rate seconds (w ticks with w * leak_rate = one request), then
\* one more call
LBBurstWaitCall ==
    /\ LBBurst(capacity + 1)
    /\ Len(history[LBHistoryKey]) >= capacity + 2
    /\ \E w \in 1..MaxTime :
           /\ w * leak_rate = Unit
           /\ LBCall(capacity + 2).timestamp = LBCall(1).timestamp + w

\* C16: starting from an empty bucket of capacity C with no time elapsing
\* between calls, C unit-cost calls are admitted and call C + 1 is denied;
\* after waiting 1 / leak_rate seconds one more unit-cost call is admitted.
C16_DrainTiming ==
    /\ \A m \in 1..capacity : LBBurst(m) => LBCall(m).status
    /\ LBBurst(capacity + 1) => ~LBCall(capacity + 1).status
    /\ LBBurstWaitCall => LBCall(capacity + 2).status

\* C16 witness: the whole scenario has run: C admitted, one denied, the
\* wait, one admitted into the slot that drained
C16_Witness ==
    /\ LBBurstWaitCall
    /\ Len(history[LBHistoryKey]) = capacity + 2
    /\ \A m \in 1..capacity : LBCall(m).status
    /\ ~LBCall(capacity + 1).status
    /\ LBCall(capacity + 2).status
    /\ queue_size = Val(capacity * Unit)

-----------------------------------------------------------------------------
(* TokenBucketLimiter or LeakyBucketLimiter, one caller, any integer cost.
   is_allowed takes cost as it comes: neither class checks it. *)

InitCost == InitTB \/ InitLB

Cost_IsAllowed(client, cost) ==
    /\ ncalls < MaxCostCalls
    /\ \/ run.algorithm = "Token Bucket" /\ TB_IsAllowedCall(client, cost)
       \/ run.algorithm = "Leaky Bucket" /\ LB_IsAllowedCall(client, cost)

NextCost ==
    \/ Tick
    \/ \E c \in Clients, cost \in AnyCosts : Cost_IsAllowed(c, cost)

SpecCost == InitCost /\ [][NextCost]_vars

\* C18: is_allowed of the token bucket and of the leaky bucket with a cost
\* <= 0 does not admit and leaves the level, the last-update time and the
\* history as they were; so no negative cost lifts the token level above
\* capacity or sinks the queue level below 0.
C18_NonPositiveCostRejected ==
    /\ (ret.op = "is_allowed" /\ obs.cost <= 0) =>
           /\ ~ret.allowed
           /\ run.algorithm = "Token Bucket" =>
                  tokens = pre.tokens /\ last_refill = pre.last_refill
           /\ run.algorithm = "Leaky Bucket" =>
                  queue_size = pre.queue_size /\ last_leak = pre.last_leak
    /\ \A key \in {TBHistoryKey, LBHistoryKey} :
           \A i \in 1..Len(history[key]) : history[key][i].cost > 0
    /\ tokens # Missing => tokens[1] <= capacity * Unit
    /\ queue_size # Missing => queue_size[1] >= 0

-----------------------------------------------------------------------------
(* Any one of the four limiters, one caller: the limiter is chosen when the
   run starts and every call goes to it. *)

InitAny == InitFW \/ InitSW \/ InitTB \/ InitLB

Any_IsAllowed(client, cost, lag) ==
    /\ ncalls < MaxAnyCalls
    /\ \/ run.algorithm = "Fixed Window" /\ FW_IsAllowedCall(client)
       \/ run.algorithm = "Sliding Window" /\ SW_IsAllowedCall(client, lag)
       \/ run.algorithm = "Token Bucket" /\ TB_IsAllowedCall(client, cost)
       \/ run.algorithm = "Leaky Bucket" /\ LB_IsAllowedCall(client, cost)

Any_GetStatus ==
    /\ ncalls < MaxAnyCalls
    /\ \/ run.algorithm = "Fixed Window" /\ FW_GetStatusCall
       \/ run.algorithm = "Sliding Window" /\ SW_GetStatusCall
       \/ run.algorithm = "Token Bucket" /\ TB_GetStatusCall
       \/ run.algorithm = "Leaky Bucket" /\ LB_GetStatusCall

Any_Reset ==
    /\ ncalls < MaxAnyCalls
    /\ \/ run.algorithm = "Fixed Window" /\ FW_ResetCall
       \/ run.algorithm = "Sliding Window" /\ SW_ResetCall
       \/ run.algorithm = "Token Bucket" /\ TB_ResetCall
       \/ run.algorithm = "Leaky Bucket" /\ LB_ResetCall

NextAny ==
    \/ Tick
    \/ \E cost \in Costs, lag \in Lags : Any_IsAllowed("Alice", cost, lag)
    \/ Any_GetStatus
    \/ Any_Reset

SpecAny == InitAny /\ [][NextAny]_vars

\* self.history_key of the limiter class
HistoryKeyOf(algorithm) ==
    CASE algorithm = "Fixed Window" -> FWHistoryKey
      [] algorithm = "Sliding Window" -> SWHistoryKey
      [] algorithm = "Token Bucket" -> TBHistoryKey
      [] algorithm = "Leaky Bucket" -> LBHistoryKey

\* the most recent call is a get_status made right after a reset, with no
\* time between the two
StatusAfterReset ==
    /\ ret.op = "get_status"
    /\ run.prev_op = "reset"
    /\ run.prev_time = ret.time

\* C19: for each of the four limiters and one caller, from any reachable
\* state, reset() followed at once by get_status() reports the initial
\* snapshot (fixed window: count 0; sliding window: count 0; token bucket:
\* tokens = capacity; leaky bucket: queue level 0) and request_history is
\* empty.
C19_ResetRoundTrip ==
    StatusAfterReset =>
        /\ RequestHistory(history, HistoryKeyOf(run.algorithm)) = <<>>
        /\ run.algorithm \in {"Fixed Window", "Sliding Window"} =>
               ret.current_count = 0 /\ ret.remaining = max_requests
        /\ run.algorithm = "Token Bucket" =>
               ret.current_tokens = Round2(capacity * Unit, Unit)
        /\ run.algorithm = "Leaky Bucket" =>
               ret.queue_size = 0 /\ ret.current_count = 0

\* C19 witness: a get_status right after a reset, at a later clock reading
\* than construction and with at least one call made before the reset
C19_Witness ==
    /\ StatusAfterReset
    /\ ncalls >= 3
    /\ now > 0

-----------------------------------------------------------------------------
(* Concurrent callers.  Each caller makes one call; a step of a caller is one
   Redis command (or one clock reading) together with the local computation
   that follows it.  pc[c] is the next step of caller c, loc[c] its locals. *)

Callers == 1..NCallers

\* the users of the dashboard, one per caller
Users == <<"Alice", "Bob", "Charlie", "Diana", "Eve">>
ClientOf(c) == Users[((c - 1) % Len(Users)) + 1]

AllDone == \A c \in Callers : pc[c] = "done"

\* the clock advances while calls are in flight
TickRun ==
    /\ now < MaxRunTime
    /\ ~AllDone
    /\ now' = now + 1
    /\ fw_keys' = PurgeKeys(fw_keys, now + 1)
    /\ ss' = SSLive(ss, ss_ttl, now + 1)
    /\ ss_ttl' = TTLLive(ss_ttl, now + 1)
    /\ UNCHANGED <<max_requests, window_size, capacity, refill_rate, leak_rate,
                   tokens, last_refill, queue_size, last_leak, history, ret, run,
                   ncalls, pre, obs, pc, loc>>

\* one caller's step: its pc and locals change, the others' stay
Step(c, label, locals) ==
    /\ pc' = [pc EXCEPT ![c] = label]
    /\ loc' = [loc EXCEPT ![c] = locals]

\* lpush of the call's record, then ltrim, as two commands
LPushStep(c, key) ==
    /\ pc[c] = "lpush"
    /\ history' = [history EXCEPT ![key] = LPush(@, loc[c].record)]
    /\ Step(c, "ltrim", loc[c])

LTrimStep(c, key) ==
    /\ pc[c] = "ltrim"
    /\ history' = [history EXCEPT ![key] = LTrim(@, 0, HistoryKeep - 1)]
    /\ Step(c, "done", loc[c])

-----------------------------------------------------------------------------
(* TokenBucketLimiter, concurrent callers *)

TBCLocals ==
    [op |-> "none", cost |-> 0, current_time |-> 0, refill_time |-> 0,
     current_tokens |-> 0, last_refill_time |-> 0, new_tokens |-> 0,
     allowed |-> FALSE, final_tokens |-> 0, record |-> <<>>,
     failed |-> "none"]

TBCFrame ==
    UNCHANGED <<max_requests, window_size, capacity, refill_rate, leak_rate,
                fw_keys, ss, ss_ttl, queue_size, last_leak, ret, run, ncalls, pre,
                obs>>

\* is_allowed: current_time = time.time()
TBC_IsAllowed(c, cost) ==
    /\ pc[c] = "idle"
    /\ Step(c, "refill", [loc[c] EXCEPT !.op = "is_allowed", !.cost = cost,
                                         !.current_time = now])
    /\ UNCHANGED <<now, tokens, last_refill, history>>
    /\ TBCFrame

\* get_status: goes straight to _refill_tokens
TBC_GetStatus(c) ==
    /\ pc[c] = "idle"
    /\ Step(c, "refill", [loc[c] EXCEPT !.op = "get_status"])
    /\ UNCHANGED <<now, tokens, last_refill, history>>
    /\ TBCFrame

\* _refill_tokens: current_time = time.time()
TBC_RefillTime(c) ==
    /\ pc[c] = "refill"
    /\ Step(c, "get_tokens", [loc[c] EXCEPT !.refill_time = now])
    /\ UNCHANGED <<now, tokens, last_refill, history>>
    /\ TBCFrame

\* current_tokens = float(get(tokens_key) or 0)
TBC_GetTokens(c) ==
    /\ pc[c] = "get_tokens"
    /\ Step(c, "get_last", [loc[c] EXCEPT !.current_tokens = GetFloat(tokens, 0)])
    /\ UNCHANGED <<now, tokens, last_refill, history>>
    /\ TBCFrame

\* last_refill_time = float(get(last_refill_key) or current_time); new_tokens
TBC_GetLast(c) ==
    /\ pc[c] = "get_last"
    /\ LET last == GetFloat(last_refill, loc[c].refill_time)
       IN  Step(c, "set_tokens",
                [loc[c] EXCEPT !.last_refill_time = last,
                               !.new_tokens = Refill(loc[c].current_tokens, last,
                                                     loc[c].refill_time,
                                                     refill_rate, capacity)])
    /\ UNCHANGED <<now, tokens, last_refill, history>>
    /\ TBCFrame

\* set(tokens_key, new_tokens)
TBC_SetTokens(c) ==
    /\ pc[c] = "set_tokens"
    /\ tokens' = Val(loc[c].new_tokens)
    /\ Step(c, "set_last", loc[c])
    /\ UNCHANGED <<now, last_refill, history>>
    /\ TBCFrame

\* set(last_refill_key, current_time); return new_tokens
TBC_SetLast(c) ==
    /\ pc[c] = "set_last"
    /\ last_refill' = Val(loc[c].refill_time)
    /\ Step(c, IF loc[c].op = "is_allowed" THEN "decide" ELSE "done", loc[c])
    /\ UNCHANGED <<now, tokens, history>>
    /\ TBCFrame

\* if current_tokens >= cost: set(tokens_key, current_tokens - cost)
TBC_Admit(c) ==
    /\ pc[c] = "decide"
    /\ TBAllowed(loc[c].new_tokens, loc[c].cost)
    /\ LET final == Consume(loc[c].new_tokens, loc[c].cost)
       IN  /\ tokens' = Val(final)
           /\ Step(c, "lpush",
                   [loc[c] EXCEPT !.allowed = TRUE, !.final_tokens = final,
                        !.record = TBRecord(ClientOf(c), TRUE, final,
                                            loc[c].cost, loc[c].current_time)])
    /\ UNCHANGED <<now, last_refill, history>>
    /\ TBCFrame

\* else: allowed = False, nothing is written
TBC_Deny(c) ==
    /\ pc[c] = "decide"
    /\ ~TBAllowed(loc[c].new_tokens, loc[c].cost)
    /\ Step(c, "lpush",
            [loc[c] EXCEPT !.allowed = FALSE, !.final_tokens = loc[c].new_tokens,
                 !.record = TBRecord(ClientOf(c), FALSE, loc[c].new_tokens,
                                     loc[c].cost, loc[c].current_time)])
    /\ UNCHANGED <<now, tokens, last_refill, history>>
    /\ TBCFrame

TBC_LPush(c) ==
    /\ LPushStep(c, TBHistoryKey)
    /\ UNCHANGED <<now, tokens, last_refill>>
    /\ TBCFrame

TBC_LTrim(c) ==
    /\ LTrimStep(c, TBHistoryKey)
    /\ UNCHANGED <<now, tokens, last_refill>>
    /\ TBCFrame

InitTBC ==
    /\ run = RunOf("Token Bucket")
    /\ now = 0
    /\ fw_keys = <<>>
    /\ ss = {}
    /\ ss_ttl = NoTTL
    /\ capacity = NCallers - 1
    /\ refill_rate \in Rates
    /\ tokens = Val(capacity * Unit)
    /\ last_refill = Val(now)
    /\ queue_size = Missing
    /\ last_leak = Missing
    /\ history = EmptyHistory
    /\ ret = NoRet
    /\ ncalls = 0
    /\ pre = Missing
    /\ obs = Missing
    /\ pc = [c \in Callers |-> "idle"]
    /\ loc = [c \in Callers |-> TBCLocals]
    /\ max_requests = 0
    /\ window_size = 0
    /\ leak_rate = 0

\* one step of caller c: the start of a call or its next command
TBC_CallerStep(c) ==
    \/ \E cost \in RunCosts : TBC_IsAllowed(c, cost)
    \/ TBC_GetStatus(c)
    \/ TBC_RefillTime(c)
    \/ TBC_GetTokens(c)
    \/ TBC_GetLast(c)
    \/ TBC_SetTokens(c)
    \/ TBC_SetLast(c)
    \/ TBC_Admit(c)
    \/ TBC_Deny(c)
    \/ TBC_LPush(c)
    \/ TBC_LTrim(c)

NextTBC ==
    \/ TickRun
    \/ \E c \in Callers : TBC_CallerStep(c)

SpecTBC == InitTBC /\ [][NextTBC]_vars

Admitted == {c \in Callers : loc[c].op = "is_allowed" /\ loc[c].allowed}

\* the run of the claim: every caller has made one unit-cost is_allowed, the
\* bucket held NCallers - 1 tokens and the clock stood still
UnitCostRun ==
    /\ AllDone
    /\ now = 0
    /\ \A c \in Callers : loc[c].op = "is_allowed" /\ loc[c].cost = 1

\* C6: N callers at once, one unit-cost is_allowed each, against a bucket
\* holding exactly N - 1 tokens and no refill during the run: exactly N - 1
\* calls are admitted and exactly 1 is denied, under every interleaving.
C6_NoDoubleSpend ==
    UnitCostRun => Cardinality(Admitted) = NCallers - 1

\* the callers whose catch-up has read the last-refill time
TBCCaughtUp ==
    {c \in Callers : pc[c] \notin {"idle", "refill", "get_tokens", "get_last"}}

\* C12: with concurrent is_allowed (cost > 0) and get_status calls that share
\* one non-decreasing clock, each call reading the clock once at the start of
\* its catch-up, the stored token level is within 0 .. capacity in every
\* reachable state, and no caller computes a negative elapsed time.
C12_TokensNeverNegative ==
    /\ tokens # Missing
    /\ 0 <= tokens[1] /\ tokens[1] <= capacity * Unit
    /\ \A c \in TBCCaughtUp : loc[c].refill_time - loc[c].last_refill_time >= 0

-----------------------------------------------------------------------------
(* LeakyBucketLimiter, concurrent callers *)

LBCLocals ==
    [op |-> "none", cost |-> 0, current_time |-> 0, leak_time |-> 0,
     current_queue_size |-> 0, last_leak_time |-> 0, new_queue_size |-> 0,
     allowed |-> FALSE, final_queue_size |-> 0, record |-> <<>>,
     failed |-> "none"]

LBCFrame ==
    UNCHANGED <<max_requests, window_size, capacity, refill_rate, leak_rate,
                fw_keys, ss, ss_ttl, tokens, last_refill, ret, run, ncalls, pre,
                obs>>

\* is_allowed: current_time = time.time()
LBC_IsAllowed(c, cost) ==
    /\ pc[c] = "idle"
    /\ Step(c, "leak", [loc[c] EXCEPT !.op = "is_allowed", !.cost = cost,
                                       !.current_time = now])
    /\ UNCHANGED <<now, queue_size, last_leak, history>>
    /\ LBCFrame

\* get_status: goes straight to _leak_requests
LBC_GetStatus(c) ==
    /\ pc[c] = "idle"
    /\ Step(c, "leak", [loc[c] EXCEPT !.op = "get_status"])
    /\ UNCHANGED <<now, queue_size, last_leak, history>>
    /\ LBCFrame

\* _leak_requests: current_time = time.time()
LBC_LeakTime(c) ==
    /\ pc[c] = "leak"
    /\ Step(c, "get_queue", [loc[c] EXCEPT !.leak_time = now])
    /\ UNCHANGED <<now, queue_size, last_leak, history>>
    /\ LBCFrame

\* current_queue_size = float(get(queue_size_key) or 0)
LBC_GetQueue(c) ==
    /\ pc[c] = "get_queue"
    /\ Step(c, "get_last",
            [loc[c] EXCEPT !.current_queue_size = GetFloat(queue_size, 0)])
    /\ UNCHANGED <<now, queue_size, last_leak, history>>
    /\ LBCFrame

\* last_leak_time = float(get(last_leak_key) or current_time); new_queue_size
LBC_GetLast(c) ==
    /\ pc[c] = "get_last"
    /\ LET last == GetFloat(last_leak, loc[c].leak_time)
       IN  Step(c, "set_queue",
                [loc[c] EXCEPT !.last_leak_time = last,
                               !.new_queue_size =
                                    Leak(loc[c].current_queue_size, last,
                                         loc[c].leak_time, leak_rate)])
    /\ UNCHANGED <<now, queue_size, last_leak, history>>
    /\ LBCFrame

\* set(queue_size_key, new_queue_size)
LBC_SetQueue(c) ==
    /\ pc[c] = "set_queue"
    /\ queue_size' = Val(loc[c].new_queue_size)
    /\ Step(c, "set_last", loc[c])
    /\ UNCHANGED <<now, last_leak, history>>
    /\ LBCFrame

\* set(last_leak_key, current_time); return new_queue_size
LBC_SetLast(c) ==
    /\ pc[c] = "set_last"
    /\ last_leak' = Val(loc[c].leak_time)
    /\ Step(c, IF loc[c].op = "is_allowed" THEN "decide" ELSE "done", loc[c])
    /\ UNCHANGED <<now, queue_size, history>>
    /\ LBCFrame

\* if current_queue_size + cost <= capacity: set(queue_size_key, ... + cost)
LBC_Admit(c) ==
    /\ pc[c] = "decide"
    /\ LBAllowed(loc[c].new_queue_size, loc[c].cost, capacity)
    /\ LET final == Enqueue(loc[c].new_queue_size, loc[c].cost)
       IN  /\ queue_size' = Val(final)
           /\ Step(c, "lpush",
                   [loc[c] EXCEPT !.allowed = TRUE, !.final_queue_size = final,
                        !.record = LBRecord(ClientOf(c), TRUE, final,
                                            loc[c].cost, loc[c].current_time)])
    /\ UNCHANGED <<now, last_leak, history>>
    /\ LBCFrame

\* else: allowed = False, nothing is written
LBC_Deny(c) ==
    /\ pc[c] = "decide"
    /\ ~LBAllowed(loc[c].new_queue_size, loc[c].cost, capacity)
    /\ Step(c, "lpush",
            [loc[c] EXCEPT !.allowed = FALSE,
                 !.final_queue_size = loc[c].new_queue_size,
                 !.record = LBRecord(ClientOf(c), FALSE, loc[c].new_queue_size,
                                     loc[c].cost, loc[c].current_time)])
    /\ UNCHANGED <<now, queue_size, last_leak, history>>
    /\ LBCFrame

LBC_LPush(c) ==
    /\ LPushStep(c, LBHistoryKey)
    /\ UNCHANGED <<now, queue_size, last_leak>>
    /\ LBCFrame

LBC_LTrim(c) ==
    /\ LTrimStep(c, LBHistoryKey)
    /\ UNCHANGED <<now, queue_size, last_leak>>
    /\ LBCFrame

InitLBC ==
    /\ run = RunOf("Leaky Bucket")
    /\ now = 0
    /\ fw_keys = <<>>
    /\ ss = {}
    /\ ss_ttl = NoTTL
    /\ capacity = NCallers - 1
    /\ leak_rate \in Rates
    /\ queue_size = Val(0)
    /\ last_leak = Val(now)
    /\ tokens = Missing
    /\ last_refill = Missing
    /\ history = EmptyHistory
    /\ ret = NoRet
    /\ ncalls = 0
    /\ pre = Missing
    /\ obs = Missing
    /\ pc = [c \in Callers |-> "idle"]
    /\ loc = [c \in Callers |-> LBCLocals]
    /\ max_requests = 0
    /\ window_size = 0
    /\ refill_rate = 0

\* one step of caller c: the start of a call or its next command
LBC_CallerStep(c) ==
    \/ \E cost \in RunCosts : LBC_IsAllowed(c, cost)
    \/ LBC_GetStatus(c)
    \/ LBC_LeakTime(c)
    \/ LBC_GetQueue(c)
    \/ LBC_GetLast(c)
    \/ LBC_SetQueue(c)
    \/ LBC_SetLast(c)
    \/ LBC_Admit(c)
    \/ LBC_Deny(c)
    \/ LBC_LPush(c)
    \/ LBC_LTrim(c)

NextLBC ==
    \/ TickRun
    \/ \E c \in Callers : LBC_CallerStep(c)

SpecLBC == InitLBC /\ [][NextLBC]_vars

\* C7: N callers at once, one unit-cost is_allowed each, against an empty
\* bucket of capacity N - 1 and no leak during the run: exactly N - 1 calls
\* are admitted, exactly 1 is denied, and the final stored queue level equals
\* the number of admissions, under every interleaving.
C7_NoOverAdmission ==
    UnitCostRun =>
        /\ Cardinality(Admitted) = NCallers - 1
        /\ queue_size = Val(Cardinality(Admitted) * Unit)

\* the callers whose catch-up has read the last-leak time
LBCCaughtUp ==
    {c \in Callers : pc[c] \notin {"idle", "leak", "get_queue", "get_last"}}

\* C13: with concurrent is_allowed (cost > 0) and get_status calls that share
\* one non-decreasing clock, each call reading the clock once at the start of
\* its catch-up, the stored queue level is within 0 .. capacity in every
\* reachable state, and no caller computes a negative elapsed time.
C13_QueueNeverAboveCapacity ==
    /\ queue_size # Missing
    /\ 0 <= queue_size[1] /\ queue_size[1] <= capacity * Unit
    /\ \A c \in LBCCaughtUp : loc[c].leak_time - loc[c].last_leak_time >= 0

-----------------------------------------------------------------------------
(* SlidingWindowLimiter, concurrent callers *)

SWCLocals ==
    [op |-> "none", current_time |-> 0, prune_time |-> 0, removed_count |-> 0,
     current_count |-> 0, allowed |-> FALSE, final_count |-> 0,
     record |-> <<>>, failed |-> "none"]

SWCFrame ==
    UNCHANGED <<max_requests, window_size, capacity, refill_rate, leak_rate,
                fw_keys, tokens, last_refill, queue_size, last_leak, ret, run,
                ncalls, pre, obs>>

\* is_allowed: current_time = time.time()
SWC_IsAllowed(c) ==
    /\ pc[c] = "idle"
    /\ Step(c, "prune_time", [loc[c] EXCEPT !.op = "is_allowed",
                                             !.current_time = now])
    /\ UNCHANGED <<now, ss, ss_ttl, history>>
    /\ SWCFrame

\* _remove_old_requests: current_time = time.time()
SWC_PruneTime(c) ==
    /\ pc[c] = "prune_time"
    /\ Step(c, "zrem", [loc[c] EXCEPT !.prune_time = now])
    /\ UNCHANGED <<now, ss, ss_ttl, history>>
    /\ SWCFrame

\* get_status: current_time = time.time()
SWC_GetStatus(c) ==
    /\ pc[c] = "idle"
    /\ Step(c, "zrem", [loc[c] EXCEPT !.op = "get_status",
                                       !.current_time = now,
                                       !.prune_time = now])
    /\ UNCHANGED <<now, ss, ss_ttl, history>>
    /\ SWCFrame

\* zremrangebyscore(timestamps_key, 0, clean_threshold)
SWC_ZRem(c) ==
    /\ pc[c] = "zrem"
    /\ LET pruned == ZRemRangeByScore(ss, 0,
                         CleanThreshold(loc[c].prune_time, window_size))
       IN  /\ ss' = pruned
           /\ ss_ttl' = IF pruned = {} THEN NoTTL ELSE ss_ttl
           /\ Step(c, IF loc[c].op = "is_allowed" THEN "exists" ELSE "zcard",
                   [loc[c] EXCEPT !.removed_count = ZCard(ss) - ZCard(pruned)])
    /\ UNCHANGED <<now, history>>
    /\ SWCFrame

\* if exists(timestamps_key)
SWC_Exists(c) ==
    /\ pc[c] = "exists"
    /\ Step(c, IF ss # {} THEN "expire" ELSE "zcard", loc[c])
    /\ UNCHANGED <<now, ss, ss_ttl, history>>
    /\ SWCFrame

\* expire(timestamps_key, int(window_size * 2)): no effect on a missing key
SWC_Expire(c) ==
    /\ pc[c] = "expire"
    /\ ss_ttl' = SWExpire(ss, ss_ttl, now, window_size)
    /\ Step(c, "zcard", loc[c])
    /\ UNCHANGED <<now, ss, history>>
    /\ SWCFrame

\* current_count = zcard(timestamps_key); get_status returns here
SWC_ZCard(c) ==
    /\ pc[c] = "zcard"
    /\ LET count == ZCard(ss)
           allowed == SWAllowed(count, max_requests)
       IN  Step(c, IF loc[c].op # "is_allowed" THEN "done"
                   ELSE IF allowed THEN "zadd" ELSE "lpush",
                [loc[c] EXCEPT !.current_count = count,
                     !.allowed = (loc[c].op = "is_allowed" /\ allowed),
                     !.final_count = count,
                     !.record = SWRecord(ClientOf(c), FALSE, count,
                                         loc[c].current_time)])
    /\ UNCHANGED <<now, ss, ss_ttl, history>>
    /\ SWCFrame

\* zadd(timestamps_key, {unique_timestamp: current_time}); callers are
\* distinct processes, their nanosecond readings are taken to differ
SWC_ZAdd(c) ==
    /\ pc[c] = "zadd"
    /\ ss' = ZAdd(ss, UniqueTimestamp(loc[c].current_time, ClientOf(c), c),
                  loc[c].current_time)
    /\ Step(c, "zcard2", loc[c])
    /\ UNCHANGED <<now, ss_ttl, history>>
    /\ SWCFrame

\* final_count = zcard(timestamps_key)
SWC_ZCard2(c) ==
    /\ pc[c] = "zcard2"
    /\ Step(c, "lpush",
            [loc[c] EXCEPT !.final_count = ZCard(ss),
                 !.record = SWRecord(ClientOf(c), TRUE, ZCard(ss),
                                     loc[c].current_time)])
    /\ UNCHANGED <<now, ss, ss_ttl, history>>
    /\ SWCFrame

SWC_LPush(c) ==
    /\ LPushStep(c, SWHistoryKey)
    /\ UNCHANGED <<now, ss, ss_ttl>>
    /\ SWCFrame

SWC_LTrim(c) ==
    /\ LTrimStep(c, SWHistoryKey)
    /\ UNCHANGED <<now, ss, ss_ttl>>
    /\ SWCFrame

InitSWC ==
    /\ run = RunOf("Sliding Window")
    /\ InitCommon
    /\ max_requests = NCallers - 1
    /\ window_size \in WindowSizes
    /\ capacity = 0
    /\ refill_rate = 0
    /\ leak_rate = 0
    /\ obs = Missing
    /\ pc = [c \in Callers |-> "idle"]
    /\ loc = [c \in Callers |-> SWCLocals]

\* one step of caller c: the start of a call or its next command
SWC_CallerStep(c) ==
    \/ SWC_IsAllowed(c)
    \/ SWC_PruneTime(c)
    \/ SWC_GetStatus(c)
    \/ SWC_ZRem(c)
    \/ SWC_Exists(c)
    \/ SWC_Expire(c)
    \/ SWC_ZCard(c)
    \/ SWC_ZAdd(c)
    \/ SWC_ZCard2(c)
    \/ SWC_LPush(c)
    \/ SWC_LTrim(c)

NextSWC ==
    \/ TickRun
    \/ \E c \in Callers : SWC_CallerStep(c)

SpecSWC == InitSWC /\ [][NextSWC]_vars

\* C8: under every interleaving of concurrent is_allowed calls the number of
\* admitted timestamps inside the window (now - window_size, now] never
\* exceeds max_requests; N callers against an empty window with
\* max_requests = N - 1 yield exactly N - 1 admissions.
C8_WindowNeverOverfull ==
    /\ Cardinality({e \in ss : e.score > now - window_size /\ e.score <= now})
           <= max_requests
    /\ (AllDone /\ \A c \in Callers : loc[c].op = "is_allowed") =>
           Cardinality(Admitted) = NCallers - 1

-----------------------------------------------------------------------------
(* FixedWindowRateLimiter, concurrent callers *)

FWCLocals ==
    [op |-> "none", current_time |-> 0, window_key |-> 0, current_count |-> 0,
     allowed |-> FALSE, window_reset |-> FALSE, error |-> FALSE,
     record |-> <<>>, failed |-> "none", keys |-> {}]

FWCFrame ==
    UNCHANGED <<max_requests, window_size, capacity, refill_rate, leak_rate,
                ss, ss_ttl, tokens, last_refill, queue_size, last_leak, ret, run,
                ncalls, pre, obs>>

\* is_allowed: current_time = time.time(); window_key
FWC_IsAllowed(c) ==
    /\ pc[c] = "idle"
    /\ Step(c, "incr", [loc[c] EXCEPT !.op = "is_allowed",
                            !.current_time = now,
                            !.window_key = WindowStart(now, window_size)])
    /\ UNCHANGED <<now, fw_keys, history>>
    /\ FWCFrame

\* get_status: current_time = time.time(); window_key
FWC_GetStatus(c) ==
    /\ pc[c] = "idle"
    /\ Step(c, "get", [loc[c] EXCEPT !.op = "get_status",
                           !.current_time = now,
                           !.window_key = WindowStart(now, window_size)])
    /\ UNCHANGED <<now, fw_keys, history>>
    /\ FWCFrame

\* pipe.execute(): incr and expire as one MULTI/EXEC transaction
FWC_Incr(c) ==
    /\ pc[c] = "incr"
    /\ LET count == IncrResult(fw_keys, loc[c].window_key)
       IN  /\ fw_keys' = IncrExpire(fw_keys, loc[c].window_key, now, window_size)
           /\ Step(c, "stamp",
                   [loc[c] EXCEPT !.current_count = count,
                                  !.allowed = FWAllowed(count, max_requests),
                                  !.window_reset = (count = 1)])
    /\ UNCHANGED <<now, history>>
    /\ FWCFrame

\* _add_history_to_redis: the record, with 'timestamp': time.time()
FWC_Stamp(c) ==
    /\ pc[c] = "stamp"
    /\ Step(c, "lpush",
            [loc[c] EXCEPT !.record = FWRecord(ClientOf(c), loc[c].allowed,
                                               loc[c].current_count, now)])
    /\ UNCHANGED <<now, fw_keys, history>>
    /\ FWCFrame

\* current_count_str = redis_client.get(window_key)
FWC_Get(c) ==
    /\ pc[c] = "get"
    /\ Step(c, "done",
            [loc[c] EXCEPT !.current_count = FWGetCount(fw_keys,
                                                        loc[c].window_key)])
    /\ UNCHANGED <<now, fw_keys, history>>
    /\ FWCFrame

FWC_LPush(c) ==
    /\ LPushStep(c, FWHistoryKey)
    /\ UNCHANGED <<now, fw_keys>>
    /\ FWCFrame

FWC_LTrim(c) ==
    /\ LTrimStep(c, FWHistoryKey)
    /\ UNCHANGED <<now, fw_keys>>
    /\ FWCFrame

InitFWC ==
    /\ run = RunOf("Fixed Window")
    /\ InitCommon
    /\ max_requests \in 1..MaxLimit
    /\ window_size \in WindowSizes
    /\ capacity = 0
    /\ refill_rate = 0
    /\ leak_rate = 0
    /\ obs = Missing
    /\ pc = [c \in Callers |-> "idle"]
    /\ loc = [c \in Callers |-> FWCLocals]

\* the clock stands still during the run: all callers fall in one window
\* one step of caller c: the start of a call or its next command
FWC_CallerStep(c) ==
    \/ FWC_IsAllowed(c)
    \/ FWC_GetStatus(c)
    \/ FWC_Incr(c)
    \/ FWC_Stamp(c)
    \/ FWC_Get(c)
    \/ FWC_LPush(c)
    \/ FWC_LTrim(c)

NextFWC ==
    \/ \E c \in Callers : FWC_CallerStep(c)

SpecFWC == InitFWC /\ [][NextFWC]_vars

\* the callers whose increment of window key k has been executed
Incremented(k) ==
    {c \in Callers : /\ loc[c].op = "is_allowed"
                     /\ loc[c].window_key = k
                     /\ pc[c] \notin {"idle", "incr"}}

\* C9: when N callers invoke is_allowed concurrently inside one window,
\* starting from count 0, they observe the distinct post-increment counts
\* 1..N, exactly min(N, max_requests) of them are admitted, and the stored
\* count ends at N, under every interleaving.  Stated for every window key
\* and at every moment of the run, N being the number of callers whose
\* increment has been executed.
C9_AtomicIncrement ==
    \A k \in {WindowStart(t, window_size) : t \in 0..now} :
        LET done == Incremented(k)
            n == Cardinality(done)
        IN  /\ {loc[c].current_count : c \in done} = 1..n
            /\ Cardinality({c \in done : loc[c].allowed})
                   = (IF n <= max_requests THEN n ELSE max_requests)
            /\ n > 0 => k \in DOMAIN fw_keys /\ fw_keys[k].count = n
            /\ n = 0 => k \notin DOMAIN fw_keys

\* C9 witness: all N callers have made is_allowed in one window, more of them
\* than max_requests, and the count stands at N
C9_Witness ==
    /\ AllDone
    /\ \A c \in Callers : loc[c].op = "is_allowed" /\ loc[c].window_key = 0
    /\ NCallers > max_requests
    /\ fw_keys[0].count = NCallers
    /\ Cardinality(Admitted) = max_requests

-----------------------------------------------------------------------------
(* FixedWindowRateLimiter, concurrent callers, built over a store whose
   history list already holds the records of earlier calls.  The list has no
   expiry and __init__ does not clear it, so it outlives the counters of the
   windows it was written in. *)

\* the records of n earlier admitted calls, one per window of size w, newest
\* first; the counters of those windows have expired
OldRecords(n, w) == [i \in 1..n |-> FWRecord("Eve", TRUE, 1, -(i + 1) * w)]

\* how many records the list holds when the run starts
OldLengths == {HistoryKeep - 1, HistoryKeep}

InitFWH ==
    /\ run = RunOf("Fixed Window")
    /\ now = 0
    /\ fw_keys = <<>>
    /\ ss = {}
    /\ ss_ttl = NoTTL
    /\ tokens = Missing
    /\ last_refill = Missing
    /\ queue_size = Missing
    /\ last_leak = Missing
    /\ max_requests \in 1..MaxLimit
    /\ window_size \in WindowSizes
    /\ \E n \in OldLengths :
           history = [EmptyHistory EXCEPT
                          ![FWHistoryKey] = OldRecords(n, window_size)]
    /\ ret = NoRet
    /\ ncalls = 0
    /\ pre = Missing
    /\ capacity = 0
    /\ refill_rate = 0
    /\ leak_rate = 0
    /\ obs = Missing
    /\ pc = [c \in Callers |-> "idle"]
    /\ loc = [c \in Callers |-> FWCLocals]

SpecFWH == InitFWH /\ [][NextFWC]_vars

\* C20: each limiter's history list holds at most 50 records in every
\* reachable state that follows a history write, the states between the push
\* and the trim of one caller and under interleaved pushes and trims of
\* concurrent callers included.
C20_HistoryBound ==
    \A key \in HistoryKeys : Len(history[key]) <= HistoryKeep

-----------------------------------------------------------------------------
(* FixedWindowRateLimiter, one caller, built over a store whose history list
   already holds the records of earlier calls; the run makes is_allowed
   calls only, so the list grows by one record per call. *)

\* how many records the list holds when the run starts: just under and at
\* what request_history shows, and at what the list keeps
ShownLengths == {HistoryShow - 1, HistoryShow, HistoryKeep}

InitFWL ==
    /\ run = RunOf("Fixed Window")
    /\ now = 0
    /\ fw_keys = <<>>
    /\ ss = {}
    /\ ss_ttl = NoTTL
    /\ tokens = Missing
    /\ last_refill = Missing
    /\ queue_size = Missing
    /\ last_leak = Missing
    /\ max_requests \in 1..MaxLimit
    /\ window_size \in WindowSizes
    /\ \E n \in ShownLengths :
           history = [EmptyHistory EXCEPT
                          ![FWHistoryKey] = OldRecords(n, window_size)]
    /\ ret = NoRet
    /\ ncalls = 0
    /\ pre = Missing
    /\ capacity = 0
    /\ refill_rate = 0
    /\ leak_rate = 0
    /\ obs = [win |-> -1, n |-> 0]
    /\ pc = <<>>
    /\ loc = <<>>

FWL_IsAllowed(client) ==
    /\ ncalls < MaxHistoryCalls
    /\ FW_IsAllowedCall(client)

NextFWL ==
    \/ Tick
    \/ \E c \in Clients : FWL_IsAllowed(c)

SpecFWL == InitFWL /\ [][NextFWL]_vars

\* record a was appended after record b: a later clock reading, or the same
\* reading (hence the same window) and a higher post-increment count
AppendedAfter(a, b) ==
    \/ a.timestamp > b.timestamp
    \/ a.timestamp = b.timestamp /\ a.count_after > b.count_after

\* C21: request_history returns at most 20 records, and they are exactly the
\* min(20, length) most recently appended records of the list, newest first:
\* the records of the run's calls, the last call at the head, followed by
\* the most recent of the older records.
C21_HistoryRead ==
    LET shown == RequestHistory(history, FWHistoryKey)
        old == OldRecords(HistoryKeep, window_size)
    IN  /\ Len(shown) <= HistoryShow
        /\ Len(shown) = Min(HistoryShow, Len(history[FWHistoryKey]))
        /\ \A i \in 1..(Len(shown) - 1) : AppendedAfter(shown[i], shown[i + 1])
        /\ ret.op = "is_allowed" =>
               /\ shown[1].timestamp = ret.time
               /\ shown[1].status = ret.allowed
               /\ shown[1].window_reset = ret.window_reset
        /\ \A i \in 1..Len(shown) :
               IF i <= ncalls THEN shown[i].timestamp >= 0
                              ELSE shown[i] = old[i - ncalls]

\* C21 witness: the list holds more than 20 records, the run has appended
\* two of them, and request_history shows 20
C21_Witness ==
    /\ ret.op = "is_allowed"
    /\ ncalls = MaxHistoryCalls
    /\ Len(history[FWHistoryKey]) > HistoryShow
    /\ Len(RequestHistory(history, FWHistoryKey)) = HistoryShow

-----------------------------------------------------------------------------
(* Store failures.  A Redis command may raise (connection refused, timeout)
   instead of answering; a command that raises has not been applied.  What
   the caller gets then is decided by the try / except blocks of the class:
   pc[c] = "raised" means the exception left the call.

   The runs with failures are made by two of the callers, the others stay
   idle. *)

ActiveCallers == {1, 2}

\* TokenBucketLimiter has no try / except: _refill_tokens, is_allowed,
\* get_status and _add_history_to_redis let the exception of any command
\* through.  The commands are the two GETs and two SETs of _refill_tokens,
\* the SET of an admitted call, the LPUSH and the LTRIM.
TBC_AtCommand(c) ==
    \/ pc[c] \in {"get_tokens", "get_last", "set_tokens", "set_last",
                  "lpush", "ltrim"}
    \/ pc[c] = "decide" /\ TBAllowed(loc[c].new_tokens, loc[c].cost)

TBC_Fail(c) ==
    /\ TBC_AtCommand(c)
    /\ Step(c, "raised", [loc[c] EXCEPT !.failed = pc[c]])
    /\ UNCHANGED <<now, tokens, last_refill, history>>
    /\ TBCFrame

NextTBE ==
    \/ TickRun
    \/ \E c \in ActiveCallers :
          \/ TBC_CallerStep(c)
          \/ TBC_Fail(c)

SpecTBE == InitTBC /\ [][NextTBE]_vars

\* C22: the history append is best-effort: when the push or the trim of an
\* is_allowed call fails, the call does not raise; it returns the decision
\* it computed from the quota state, and the quota update it made stands.
C22_HistoryBestEffort ==
    \A c \in Callers :
        loc[c].failed \in {"lpush", "ltrim"} =>
            /\ pc[c] = "done"
            /\ loc[c].allowed = TBAllowed(loc[c].new_tokens, loc[c].cost)

\* C23: a store failure never crashes a call: whichever command of
\* is_allowed or get_status fails, the call returns (a decision or a status
\* snapshot marked as an error); the exception never leaves the call.
C23_FailureNeverRaises ==
    \A c \in Callers :
        /\ pc[c] # "raised"
        /\ loc[c].failed # "none" => pc[c] = "done"

-----------------------------------------------------------------------------
(* Any one of the four limiters, one caller making is_allowed calls under
   either of the client ids. *)

MaxClientCalls == 2

Clients_IsAllowed(client, cost, lag) ==
    /\ ncalls < MaxClientCalls
    /\ Any_IsAllowed(client, cost, lag)

NextClients ==
    \/ Tick
    \/ \E c \in Clients, cost \in Costs, lag \in Lags :
          Clients_IsAllowed(c, cost, lag)

SpecClients == InitAny /\ [][NextClients]_vars

\* the fixed window call as a function of the store it started from and of
\* its clock reading
FWClientFree ==
    LET key == WindowStart(ret.time, window_size)
        count == IncrResult(pre, key)
    IN  /\ fw_keys = IncrExpire(pre, key, ret.time, window_size)
        /\ ret.allowed = FWAllowed(count, max_requests)
        /\ ret.window_reset = (count = 1)

\* the token bucket call as a function of the store it started from, of its
\* clock reading and of its cost
TBClientFree ==
    LET caught == Refill(GetFloat(pre.tokens, 0),
                         GetFloat(pre.last_refill, ret.time),
                         ret.time, refill_rate, capacity)
        allowed == TBAllowed(caught, obs.cost)
    IN  /\ ret.allowed = allowed
        /\ tokens = Val(IF allowed THEN Consume(caught, obs.cost) ELSE caught)
        /\ last_refill = Val(ret.time)

\* the leaky bucket call, likewise
LBClientFree ==
    LET caught == Leak(GetFloat(pre.queue_size, 0),
                       GetFloat(pre.last_leak, ret.time),
                       ret.time, leak_rate)
        allowed == LBAllowed(caught, obs.cost, capacity)
    IN  /\ ret.allowed = allowed
        /\ queue_size = Val(IF allowed THEN Enqueue(caught, obs.cost)
                                       ELSE caught)
        /\ last_leak = Val(ret.time)

\* the entries of set that a pruning at the call's second clock reading
\* leaves
SWRemaining(set) ==
    {e \in set : e.score > CleanThreshold(obs.prune_time, window_size)}

\* the timestamp set the sliding window call leaves when client makes it
SWSetAs(client) ==
    IF SWAllowed(ZCard(SWRemaining(pre)), max_requests)
    THEN ZAdd(SWRemaining(pre),
              UniqueTimestamp(ret.time, client, ncalls - 1), ret.time)
    ELSE SWRemaining(pre)

\* a timestamp set with the client ids taken out of the member names
EraseClients(set) ==
    {[member |-> <<e.member[1], e.member[3]>>, score |-> e.score] : e \in set}

\* an is_allowed call has returned and the clock has not advanced since its
\* last reading
IsAllowedJustReturned ==
    /\ ret.op = "is_allowed"
    /\ now = (IF run.algorithm = "Sliding Window" THEN obs.prune_time
                                                  ELSE ret.time)

\* C24 as stated: two runs making the same is_allowed calls at the same
\* times with the same costs under different client ids get the same
\* decisions and the same quota state; only the history records differ.
\* Step by step: the decision and the quota state a call leaves are what
\* the same call leaves under any other client id.
C24_ClientIndependent ==
    IsAllowedJustReturned =>
        /\ run.algorithm = "Fixed Window" => FWClientFree
        /\ run.algorithm = "Token Bucket" => TBClientFree
        /\ run.algorithm = "Leaky Bucket" => LBClientFree
        /\ run.algorithm = "Sliding Window" =>
               /\ ret.allowed = SWAllowed(ZCard(SWRemaining(pre)), max_requests)
               /\ \A c \in Clients : ss = SWSetAs(c)

\* C24 amended: the decisions are the same, and so is the quota state up to
\* the member names of the sliding window's timestamp set, which embed the
\* client id: the set with the client ids taken out is a function of the
\* set the call started from, client ids taken out, and of the call's clock
\* readings; no two entries differ in the client id only.
C24_ClientIndependentUpToNames ==
    IsAllowedJustReturned =>
        /\ run.algorithm = "Fixed Window" => FWClientFree
        /\ run.algorithm = "Token Bucket" => TBClientFree
        /\ run.algorithm = "Leaky Bucket" => LBClientFree
        /\ run.algorithm = "Sliding Window" =>
               LET remaining == SWRemaining(EraseClients(pre))
                   allowed == SWAllowed(ZCard(remaining), max_requests)
                   entry == [member |-> <<ret.time, ncalls - 1>>,
                             score |-> ret.time]
               IN  /\ ret.allowed = allowed
                   /\ EraseClients(ss) = (IF allowed THEN remaining \cup {entry}
                                                     ELSE remaining)
                   /\ ZCard(EraseClients(ss)) = ZCard(ss)
                   /\ ret.window_requests = ZCard(EraseClients(ss))

\* C24 witness: a sliding window call of one client admitted next to an
\* entry of the other client, both made at the same clock reading
C24_Witness ==
    /\ run.algorithm = "Sliding Window"
    /\ IsAllowedJustReturned
    /\ ret.allowed
    /\ \E e1, e2 \in ss :
           /\ e1.member[2] # e2.member[2]
           /\ e1.score = e2.score
           /\ e1 \in pre /\ e2 \notin pre

-----------------------------------------------------------------------------
(* get_status between the is_allowed calls of one caller.  What a later
   is_allowed at time T decides from is the store as its own catch-up leaves
   it: the counters the store still holds at T, the entries of the timestamp
   set newer than T - window_size, the token level refilled to T, the queue
   leaked to T.  Levels are exact multiples of 1/Unit, so no rounding enters
   the catch-up. *)

FWView(keys, T) == PurgeKeys(keys, T)

SWView(set, ttl, T) ==
    {e \in SSLive(set, ttl, T) : e.score > CleanThreshold(T, window_size)}

TBView(tk, last, T) ==
    Refill(GetFloat(tk, 0), GetFloat(last, T), T, refill_rate, capacity)

LBView(q, last, T) ==
    Leak(GetFloat(q, 0), GetFloat(last, T), T, leak_rate)

\* the step is a get_status call
StatusStep == ret'.op = "get_status" /\ ncalls' = ncalls + 1

\* the step is an is_allowed call
DecideStep == ret'.op = "is_allowed" /\ ncalls' = ncalls + 1

\* get_status leaves the history list alone and, for every later time T,
\* leaves what a call at T decides from as it was
StatusInvisible ==
    StatusStep =>
        /\ history' = history
        /\ \A T \in now..MaxTime :
               /\ FWView(fw_keys', T) = FWView(fw_keys, T)
               /\ SWView(ss', ss_ttl', T) = SWView(ss, ss_ttl, T)
               /\ TBView(tokens', last_refill', T) = TBView(tokens, last_refill, T)
               /\ LBView(queue_size', last_leak', T) = LBView(queue_size, last_leak, T)

\* is_allowed decides from that view of the store and from nothing else of it
DecidesFromView ==
    DecideStep =>
        ret'.allowed =
            CASE run.algorithm = "Fixed Window" ->
                     FWAllowed(IncrResult(FWView(fw_keys, now),
                                          WindowStart(now, window_size)),
                               max_requests)
              [] run.algorithm = "Sliding Window" ->
                     SWAllowed(ZCard(SWView(ss, ss_ttl, obs'.prune_time)),
                               max_requests)
              [] run.algorithm = "Token Bucket" ->
                     TBAllowed(TBView(tokens, last_refill, now), obs'.cost)
              [] run.algorithm = "Leaky Bucket" ->
                     LBAllowed(LBView(queue_size, last_leak, now), obs'.cost,
                               capacity)

\* C25: get_status is invisible to admission: a get_status call inserted at
\* any time changes neither the history list nor, for any later time, the
\* state a later is_allowed decides from; for the token and leaky buckets,
\* catching up at t1 (status) and again at t2 gives the level that catching
\* up once at t2 gives.
C25_StatusInvisible == [][StatusInvisible /\ DecidesFromView]_vars

\* C25 witness: a token bucket is_allowed decides at t2 after a get_status at
\* an earlier t1 that wrote a caught-up level below capacity and moved the
\* last refill time to t1; the level is still below capacity after the second
\* catch-up
C25_Witness ==
    /\ run.algorithm = "Token Bucket"
    /\ ret.op = "is_allowed"
    /\ run.prev_op = "get_status"
    /\ 0 < run.prev_time /\ run.prev_time < ret.time
    /\ pre.last_refill = Val(run.prev_time)
    /\ GetFloat(pre.tokens, 0) < obs.refilled
    /\ obs.refilled < capacity * Unit

-----------------------------------------------------------------------------
(* FixedWindowRateLimiter, concurrent callers, store failures.  is_allowed
   and get_status run inside try / except Exception; _add_history_to_redis
   has a try / except of its own. *)

\* variant: the failing call reports a new window
FailOpenReset == [allowed |-> TRUE, window_reset |-> TRUE, error |-> TRUE]

\* except Exception: return True, {'window_reset': False, 'error': str(e)}
FailOpen == [allowed |-> TRUE, window_reset |-> FALSE, error |-> TRUE]

\* pipe.execute() raises: the transaction has not run, the call fails open
\* and writes no history record
FWC_FailIncr(c) ==
    /\ pc[c] = "incr"
    /\ Step(c, "done", [loc[c] EXCEPT !.allowed = FailOpen.allowed,
                                      !.window_reset = FailOpen.window_reset,
                                      !.error = FailOpen.error,
                                      !.failed = "incr"])
    /\ UNCHANGED <<now, fw_keys, history>>
    /\ FWCFrame

\* lpush or ltrim raises: _add_history_to_redis prints and returns, the call
\* returns what it had decided
FWC_FailHistory(c) ==
    /\ pc[c] \in {"lpush", "ltrim"}
    /\ Step(c, "done", [loc[c] EXCEPT !.failed = pc[c]])
    /\ UNCHANGED <<now, fw_keys, history>>
    /\ FWCFrame

\* get raises: get_status returns the 'Fixed Window (Error)' snapshot
FWC_FailGet(c) ==
    /\ pc[c] = "get"
    /\ Step(c, "done", [loc[c] EXCEPT !.current_count = 0, !.error = TRUE,
                                      !.failed = "get"])
    /\ UNCHANGED <<now, fw_keys, history>>
    /\ FWCFrame

FWC_Fail(c) ==
    \/ FWC_FailIncr(c)
    \/ FWC_FailHistory(c)
    \/ FWC_FailGet(c)

\* as in NextFWC the clock stands still: all callers fall in one window
NextFWE ==
    \/ \E c \in Callers :
          \/ FWC_CallerStep(c)
          \/ FWC_Fail(c)

SpecFWE == InitFWC /\ [][NextFWE]_vars

\* the is_allowed calls on window key k that are past pipe.execute()
Executed(k) ==
    {c \in Callers : /\ loc[c].op = "is_allowed"
                     /\ loc[c].window_key = k
                     /\ pc[c] \notin {"idle", "incr"}}

\* C27: is_allowed returns window_reset = true exactly when its
\* post-increment count is 1: among the calls on one window key, the one
\* whose increment created the counter returns true, and only that one; every
\* other call returns false, the calls that fail open included.
C27_WindowResetOnce ==
    \A k \in {WindowStart(t, window_size) : t \in 0..now} :
        LET counted == {c \in Executed(k) : loc[c].failed # "incr"}
            resets == {c \in Executed(k) : loc[c].window_reset}
        IN  /\ \A c \in counted :
                   loc[c].window_reset = (loc[c].current_count = 1)
            /\ \A c \in Executed(k) \ counted :
                   loc[c].allowed /\ ~loc[c].window_reset /\ loc[c].error
            /\ resets \subseteq counted
            /\ Cardinality(resets) = (IF counted = {} THEN 0 ELSE 1)
            /\ counted # {} <=> k \in DOMAIN fw_keys

\* C27 witness: three calls on one window key have returned: one failed open,
\* one created the counter, one found it at 1
C27_Witness ==
    /\ AllDone
    /\ \E c1, c2, c3 \in Executed(0) :
           /\ loc[c1].failed = "incr" /\ ~loc[c1].window_reset
           /\ loc[c2].failed = "none" /\ loc[c2].window_reset
           /\ loc[c3].failed = "none" /\ loc[c3].current_count = 2
           /\ ~loc[c3].window_reset

-----------------------------------------------------------------------------
(* FixedWindowRateLimiter, one caller, healthy store, no reset: bursts at a
   window boundary.  The history list is the log of the calls; it holds every
   call of a run (MaxCalls < HistoryKeep). *)

NextFWB ==
    \/ Tick
    \/ \E c \in Clients : FW_IsAllowed(c)
    \/ FW_GetStatus

SpecFWB == InitFW /\ [][NextFWB]_vars

\* the admitted calls made at times a..b
AdmittedIn(a, b) ==
    {i \in 1..Len(history[FWHistoryKey]) :
        /\ history[FWHistoryKey][i].status
        /\ a <= history[FWHistoryKey][i].timestamp
        /\ history[FWHistoryKey][i].timestamp <= b}

\* C28: in no run are more than 2 * max_requests calls admitted within a time
\* span of length <= window_size (and 2 * max_requests is reached, in a span
\* shorter than window_size across a window boundary: see the witness).
C28_BoundaryBurst ==
    \A a \in 0..now :
        Cardinality(AdmittedIn(a, a + window_size)) <= 2 * max_requests

\* C28 witness: 2 * max_requests calls admitted within a span shorter than
\* window_size that begins in one window and ends in the next
C28_Witness ==
    \E a \in 0..now, b \in 0..now :
        /\ a < b /\ b - a < window_size
        /\ WindowStart(b, window_size) = WindowStart(a, window_size) + window_size
        /\ Cardinality(AdmittedIn(a, b)) = 2 * max_requests
        /\ max_requests > 1

-----------------------------------------------------------------------------
(* SlidingWindowLimiter, one caller: the expiry of the timestamp set.
   _remove_old_requests sets it, when the key exists after the pruning;
   is_allowed adds the new entry afterwards, and zadd does not touch the
   expiry of the key. *)

\* C29: after an is_allowed call that leaves the timestamp set non-empty,
\* the very first admission into an empty store included, the set carries an
\* expiry of 2 * window_size counted from the call.
C29_SetExpiry ==
    (ret.op = "is_allowed" /\ now = obs.prune_time /\ ss # {}) =>
        ss_ttl = obs.prune_time + 2 * window_size

-----------------------------------------------------------------------------
(* FixedWindowRateLimiter, one caller, no reset: the expiry of the window
   keys.  Every is_allowed call of a run is in the history list, with the
   time it was made. *)

\* the times of the is_allowed calls made in the window that starts at k
IncrementTimes(k) ==
    {history[FWHistoryKey][i].timestamp : i \in
        {j \in 1..Len(history[FWHistoryKey]) :
            WindowStart(history[FWHistoryKey][j].timestamp, window_size) = k}}

LastIncrement(k) ==
    CHOOSE t \in IncrementTimes(k) : \A u \in IncrementTimes(k) : u <= t

\* C30: every is_allowed sets the expiry of the current window key to
\* window_size + 1 from the call; the key of a window that has received
\* calls is in the store exactly until window_size + 1 after its last
\* increment: (a) it is there, with the full count, as long as its window is
\* the current one, (b) it is gone window_size + 1 after the last increment.
C30_KeyExpiry ==
    /\ (ret.op = "is_allowed" /\ now = ret.time) =>
           LET key == WindowStart(ret.time, window_size)
           IN  /\ key \in DOMAIN fw_keys
               /\ fw_keys[key].expire_at = ret.time + window_size + 1
    /\ \A k \in DOMAIN fw_keys : IncrementTimes(k) # {}
    /\ \A k \in {WindowStart(t, window_size) : t \in 0..now} :
           IncrementTimes(k) # {} =>
               /\ k \in DOMAIN fw_keys
                      <=> now < LastIncrement(k) + window_size + 1
               /\ now < k + window_size =>
                      /\ k \in DOMAIN fw_keys
                      /\ fw_keys[k].count
                             = Cardinality({i \in 1..Len(history[FWHistoryKey]) :
                                   WindowStart(history[FWHistoryKey][i].timestamp,
                                               window_size) = k})

\* C30 witness: a key incremented at two different times of its window has
\* been removed by expiry, window_size + 1 after the second increment
C30_Witness ==
    \E k \in {WindowStart(t, window_size) : t \in 0..now} :
        /\ Cardinality(IncrementTimes(k)) >= 2
        /\ now = LastIncrement(k) + window_size + 1
        /\ k \notin DOMAIN fw_keys
        /\ fw_keys # <<>>

-----------------------------------------------------------------------------
(* Termination of the calls.  Any one of the four limiters, two callers, each
   making one call: is_allowed, get_status or reset, command by command; any
   command may raise.  No method takes a lock or waits for another caller,
   and no method has a retry loop: the only loop is the scan of reset in
   FixedWindowRateLimiter, over the keys the scan returns. *)

\* reset of TokenBucketLimiter: set, set, delete
TBC_Reset(c) ==
    /\ pc[c] = "idle"
    /\ Step(c, "reset_tokens", [loc[c] EXCEPT !.op = "reset"])
    /\ UNCHANGED <<now, tokens, last_refill, history>>
    /\ TBCFrame

TBC_ResetTokens(c) ==
    /\ pc[c] = "reset_tokens"
    /\ tokens' = Val(capacity * Unit)
    /\ Step(c, "reset_last", loc[c])
    /\ UNCHANGED <<now, last_refill, history>>
    /\ TBCFrame

TBC_ResetLast(c) ==
    /\ pc[c] = "reset_last"
    /\ last_refill' = Val(now)
    /\ Step(c, "reset_history", loc[c])
    /\ UNCHANGED <<now, tokens, history>>
    /\ TBCFrame

TBC_ResetHistory(c) ==
    /\ pc[c] = "reset_history"
    /\ history' = Delete(history, TBHistoryKey)
    /\ Step(c, "done", loc[c])
    /\ UNCHANGED <<now, tokens, last_refill>>
    /\ TBCFrame

\* a command of reset raises: no try / except
TBC_ResetFail(c) ==
    /\ pc[c] \in {"reset_tokens", "reset_last", "reset_history"}
    /\ Step(c, "raised", [loc[c] EXCEPT !.failed = pc[c]])
    /\ UNCHANGED <<now, tokens, last_refill, history>>
    /\ TBCFrame

TBC_ResetStep(c) ==
    \/ TBC_Reset(c)
    \/ TBC_ResetTokens(c)
    \/ TBC_ResetLast(c)
    \/ TBC_ResetHistory(c)

\* reset of LeakyBucketLimiter: set, set, delete
LBC_Reset(c) ==
    /\ pc[c] = "idle"
    /\ Step(c, "reset_queue", [loc[c] EXCEPT !.op = "reset"])
    /\ UNCHANGED <<now, queue_size, last_leak, history>>
    /\ LBCFrame

LBC_ResetQueue(c) ==
    /\ pc[c] = "reset_queue"
    /\ queue_size' = Val(0)
    /\ Step(c, "reset_last", loc[c])
    /\ UNCHANGED <<now, last_leak, history>>
    /\ LBCFrame

LBC_ResetLast(c) ==
    /\ pc[c] = "reset_last"
    /\ last_leak' = Val(now)
    /\ Step(c, "reset_history", loc[c])
    /\ UNCHANGED <<now, queue_size, history>>
    /\ LBCFrame

LBC_ResetHistory(c) ==
    /\ pc[c] = "reset_history"
    /\ history' = Delete(history, LBHistoryKey)
    /\ Step(c, "done", loc[c])
    /\ UNCHANGED <<now, queue_size, last_leak>>
    /\ LBCFrame

LBC_ResetStep(c) ==
    \/ LBC_Reset(c)
    \/ LBC_ResetQueue(c)
    \/ LBC_ResetLast(c)
    \/ LBC_ResetHistory(c)

\* LeakyBucketLimiter has no try / except: the commands are the two GETs and
\* two SETs of _leak_requests, the SET of an admitted call, the LPUSH and the
\* LTRIM, and the three commands of reset
LBC_AtCommand(c) ==
    \/ pc[c] \in {"get_queue", "get_last", "set_queue", "set_last",
                  "lpush", "ltrim", "reset_queue", "reset_last",
                  "reset_history"}
    \/ pc[c] = "decide"
           /\ LBAllowed(loc[c].new_queue_size, loc[c].cost, capacity)

LBC_Fail(c) ==
    /\ LBC_AtCommand(c)
    /\ Step(c, "raised", [loc[c] EXCEPT !.failed = pc[c]])
    /\ UNCHANGED <<now, queue_size, last_leak, history>>
    /\ LBCFrame

\* reset of SlidingWindowLimiter: delete, delete
SWC_Reset(c) ==
    /\ pc[c] = "idle"
    /\ Step(c, "reset_set", [loc[c] EXCEPT !.op = "reset"])
    /\ UNCHANGED <<now, ss, ss_ttl, history>>
    /\ SWCFrame

SWC_ResetSet(c) ==
    /\ pc[c] = "reset_set"
    /\ ss' = {}
    /\ ss_ttl' = NoTTL
    /\ Step(c, "reset_history", loc[c])
    /\ UNCHANGED <<now, history>>
    /\ SWCFrame

SWC_ResetHistory(c) ==
    /\ pc[c] = "reset_history"
    /\ history' = Delete(history, SWHistoryKey)
    /\ Step(c, "done", loc[c])
    /\ UNCHANGED <<now, ss, ss_ttl>>
    /\ SWCFrame

SWC_ResetStep(c) ==
    \/ SWC_Reset(c)
    \/ SWC_ResetSet(c)
    \/ SWC_ResetHistory(c)

\* SlidingWindowLimiter has no try / except around its commands
SWC_AtCommand(c) ==
    pc[c] \in {"zrem", "exists", "expire", "zcard", "zadd", "zcard2",
               "lpush", "ltrim", "reset_set", "reset_history"}

SWC_Fail(c) ==
    /\ SWC_AtCommand(c)
    /\ Step(c, "raised", [loc[c] EXCEPT !.failed = pc[c]])
    /\ UNCHANGED <<now, ss, ss_ttl, history>>
    /\ SWCFrame

\* variant: the loop of reset does not move on to the next key
RemainingSame(keys, k) == keys

\* for key in scan_iter(match="rate_limit:*"): the keys still to come
Remaining(keys, k) == keys \ {k}

\* reset of FixedWindowRateLimiter: the scan, one delete per key it returns,
\* then the delete of the history list
FWC_Reset(c) ==
    /\ pc[c] = "idle"
    /\ Step(c, "scan", [loc[c] EXCEPT !.op = "reset"])
    /\ UNCHANGED <<now, fw_keys, history>>
    /\ FWCFrame

FWC_Scan(c) ==
    /\ pc[c] = "scan"
    /\ Step(c, IF DOMAIN fw_keys = {} THEN "reset_history" ELSE "delete_key",
            [loc[c] EXCEPT !.keys = DOMAIN fw_keys])
    /\ UNCHANGED <<now, fw_keys, history>>
    /\ FWCFrame

FWC_DeleteKey(c) ==
    /\ pc[c] = "delete_key"
    /\ \E k \in loc[c].keys :
          LET rest == Remaining(loc[c].keys, k)
          IN  /\ fw_keys' = [x \in DOMAIN fw_keys \ {k} |-> fw_keys[x]]
              /\ Step(c, IF rest = {} THEN "reset_history" ELSE "delete_key",
                      [loc[c] EXCEPT !.keys = rest])
    /\ UNCHANGED <<now, history>>
    /\ FWCFrame

FWC_ResetHistory(c) ==
    /\ pc[c] = "reset_history"
    /\ history' = Delete(history, FWHistoryKey)
    /\ Step(c, "done", loc[c])
    /\ UNCHANGED <<now, fw_keys>>
    /\ FWCFrame

\* a command of reset raises: except Exception prints and reset returns
FWC_FailReset(c) ==
    /\ pc[c] \in {"scan", "delete_key", "reset_history"}
    /\ Step(c, "done", [loc[c] EXCEPT !.failed = pc[c]])
    /\ UNCHANGED <<now, fw_keys, history>>
    /\ FWCFrame

FWC_ResetStep(c) ==
    \/ FWC_Reset(c)
    \/ FWC_Scan(c)
    \/ FWC_DeleteKey(c)
    \/ FWC_ResetHistory(c)

\* the next step of caller c when the store answers
Live_Step(c) ==
    \/ run.algorithm = "Fixed Window" /\ (FWC_CallerStep(c) \/ FWC_ResetStep(c))
    \/ run.algorithm = "Sliding Window" /\ (SWC_CallerStep(c) \/ SWC_ResetStep(c))
    \/ run.algorithm = "Token Bucket" /\ (TBC_CallerStep(c) \/ TBC_ResetStep(c))
    \/ run.algorithm = "Leaky Bucket" /\ (LBC_CallerStep(c) \/ LBC_ResetStep(c))

\* the next command of caller c raises
Live_Fail(c) ==
    \/ run.algorithm = "Fixed Window" /\ (FWC_Fail(c) \/ FWC_FailReset(c))
    \/ run.algorithm = "Sliding Window" /\ SWC_Fail(c)
    \/ run.algorithm = "Token Bucket" /\ (TBC_Fail(c) \/ TBC_ResetFail(c))
    \/ run.algorithm = "Leaky Bucket" /\ LBC_Fail(c)

InitLive == InitFWC \/ InitSWC \/ InitTBC \/ InitLBC

NextLive ==
    \/ TickRun
    \/ \E c \in ActiveCallers :
          \/ Live_Step(c)
          \/ Live_Fail(c)

\* a call in flight
Started(c) == pc[c] \notin {"idle", "done", "raised"}

\* a call that has returned: with a result, or with the exception of the
\* command that failed
Returned(c) == pc[c] \in {"done", "raised"}

\* fair scheduling: a caller whose call is in flight gets to run, and the
\* store answers the command it sends (or fails it, which is not forced)
SpecLive ==
    /\ InitLive
    /\ [][NextLive]_vars
    /\ \A c \in ActiveCallers : WF_vars(Started(c) /\ Live_Step(c))

\* C26: no operation blocks: every is_allowed, get_status and reset call of
\* each of the four limiters, once started, eventually returns, with a
\* result or with a failure, whatever the other caller is doing.
C26_CallsReturn ==
    \A c \in ActiveCallers : Started(c) ~> Returned(c)

\* C26 witness: a reset of the fixed window limiter has gone through its
\* loop and returned while the other caller's is_allowed, whose counter the
\* loop deleted, is still in flight
C26_Witness ==
    /\ run.algorithm = "Fixed Window"
    /\ \E c, d \in ActiveCallers :
           /\ loc[c].op = "reset" /\ pc[c] = "done" /\ loc[c].failed = "none"
           /\ loc[d].op = "is_allowed" /\ Started(d)
           /\ loc[d].current_count = 1
           /\ fw_keys = <<>>

-----------------------------------------------------------------------------
(* The history record of a call and what the call returns.  Levels are in
   sub-units of 1/Unit, count_after of a bucket record is round(level, 2) in
   hundredths: the two are the same number when
   count_after * Unit = level * 100. *)

\* the record an is_allowed step has put at the head of the list
Pushed == Head(history'[HistoryKeyOf(run.algorithm)])

\* count_after of the pushed record is the count or level the call reports
CountAfterAsReported ==
    CASE run.algorithm = "Fixed Window" ->
             /\ Pushed.count_after
                    = fw_keys'[WindowStart(ret'.time, window_size)].count
             /\ Pushed.window_reset = ret'.window_reset
      [] run.algorithm = "Sliding Window" ->
             Pushed.count_after = ret'.window_requests
      [] run.algorithm = "Token Bucket" ->
             Pushed.count_after * Unit = ret'.tokens_remaining * 100
      [] run.algorithm = "Leaky Bucket" ->
             Pushed.count_after * Unit = ret'.queue_size * 100

RecordedOnce ==
    /\ DecideStep =>
           /\ history'[HistoryKeyOf(run.algorithm)] # <<>>
           /\ Tail(history'[HistoryKeyOf(run.algorithm)])
                  = history[HistoryKeyOf(run.algorithm)]
           /\ \A k \in HistoryKeys \ {HistoryKeyOf(run.algorithm)} :
                  history'[k] = history[k]
           /\ Pushed.status = ret'.allowed
           /\ CountAfterAsReported
    /\ StatusStep => history' = history

\* C31: each is_allowed call, admitted or denied, pushes exactly one record
\* onto its limiter's history list; the record's status is the decision
\* returned and its count_after is the count or level reported for that
\* decision; get_status pushes none.
C31_RecordedOnce == [][RecordedOnce]_vars

-----------------------------------------------------------------------------
(* The order of the history list.  A record carries the clock reading its
   call took at the start of is_allowed (in FixedWindowRateLimiter, at the
   start of _add_history_to_redis); it is pushed by a later command. *)

\* C32: in every reachable state of a history list, under concurrent
\* is_allowed callers too, a record nearer the head has a timestamp >= that
\* of every record behind it.
C32_NewestFirst ==
    \A k \in HistoryKeys :
        \A i \in 1..Len(history[k]) : \A j \in i..Len(history[k]) :
            history[k][i].timestamp >= history[k][j].timestamp

-----------------------------------------------------------------------------
(* request_history over a list that holds entries json.loads cannot decode.
   The history list is an ordinary Redis list: what the limiter pushes is the
   JSON document of a record, which json.loads reads back as that record; an
   entry written by anything else may be no JSON document at all. *)

\* a list entry that is no JSON document
Garbled == [undecodable |-> TRUE]

\* json.loads(record_json) returns; otherwise it raises json.JSONDecodeError
Decodable(entry) == "undecodable" \notin DOMAIN entry

\* variant: the first undecodable entry ends the read
RECURSIVE DecodeUntilError(_)
DecodeUntilError(data) ==
    IF data = <<>> THEN <<>>
    ELSE IF Decodable(Head(data))
         THEN <<Head(data)>> \o DecodeUntilError(Tail(data))
         ELSE <<>>

\* for record_json in history_data: try: history_list.append(json.loads(..))
\*                                  except json.JSONDecodeError: continue
RECURSIVE DecodeEach(_)
DecodeEach(data) ==
    IF data = <<>> THEN <<>>
    ELSE IF Decodable(Head(data))
         THEN <<Head(data)>> \o DecodeEach(Tail(data))
         ELSE DecodeEach(Tail(data))

\* the positions of the list where the entry may be undecodable: the head,
\* the middle, and either side of the end of what request_history reads
GarbledAt == {1, 2, HistoryShow - 1, HistoryShow, HistoryShow + 1}

\* the list the run starts from: n entries, those at the positions bad
\* undecodable, the others records of earlier calls
StoredEntries(n, bad, w) ==
    [i \in 1..n |-> IF i \in bad THEN Garbled ELSE OldRecords(n, w)[i]]

StoredLengths == {2, HistoryShow + 1}

InitFWM ==
    /\ run = RunOf("Fixed Window")
    /\ now = 0
    /\ fw_keys = <<>>
    /\ ss = {}
    /\ ss_ttl = NoTTL
    /\ tokens = Missing
    /\ last_refill = Missing
    /\ queue_size = Missing
    /\ last_leak = Missing
    /\ max_requests \in 1..MaxLimit
    /\ window_size \in WindowSizes
    /\ \E n \in StoredLengths : \E bad \in SUBSET (GarbledAt \cap 1..n) :
           history = [EmptyHistory EXCEPT
                          ![FWHistoryKey] = StoredEntries(n, bad, window_size)]
    /\ ret = NoRet
    /\ ncalls = 0
    /\ pre = Missing
    /\ capacity = 0
    /\ refill_rate = 0
    /\ leak_rate = 0
    /\ obs = [win |-> -1, n |-> 0]
    /\ pc = <<>>
    /\ loc = <<>>

\* the request_history property of the limiter, healthy store
FW_RequestHistory ==
    /\ ret' = [op |-> "request_history",
               history_list |-> DecodeEach(LRange(history[FWHistoryKey], 0,
                                                  HistoryShow - 1)),
               time |-> now]
    /\ pre' = history[FWHistoryKey]
    /\ UNCHANGED <<now, fw_keys, history, obs, run, ncalls>>
    /\ FWUnchanged

\* the clock stands still: the read does not depend on it
NextFWM ==
    \/ \E c \in Clients : FWL_IsAllowed(c)
    \/ FW_RequestHistory

SpecFWM == InitFWM /\ [][NextFWM]_vars

\* the first 20 entries of the list a read started from
FirstShown(list) == SubSeq(list, 1, Min(HistoryShow, Len(list)))

\* C33: request_history returns, in their stored order, exactly the decodable
\* entries among the first 20 of the list; an undecodable entry is left out
\* and neither ends the read nor takes a decodable entry with it.
C33_MalformedSkipped ==
    ret.op = "request_history" =>
        LET first == FirstShown(pre)
            good == {i \in 1..Len(first) : Decodable(first[i])}
        IN  /\ ret.history_list = SelectSeq(first, Decodable)
            /\ Len(ret.history_list) = Cardinality(good)
            /\ \A i \in good :
                   ret.history_list[Cardinality({j \in good : j <= i})] = first[i]
            /\ \A i \in 1..Len(ret.history_list) :
                   Decodable(ret.history_list[i])

\* C33 witness: a read of a list longer than 20 whose first 20 entries hold
\* undecodable ones at the head and at the end, and decodable ones between
\* and behind them: the read returns the ones between
C33_Witness ==
    /\ ret.op = "request_history"
    /\ Len(pre) > HistoryShow
    /\ ~Decodable(pre[1])
    /\ ~Decodable(pre[HistoryShow])
    /\ Decodable(pre[2])
    /\ Decodable(pre[HistoryShow + 1])
    /\ Len(ret.history_list) > 0
    /\ Len(ret.history_list) <= HistoryShow - 2

-----------------------------------------------------------------------------
(* A token or leaky bucket whose capacity attribute is assigned while the
   limiter is live, as the dashboard does on every rerun of its page
   (limiter.capacity = capacity).  The store is not touched by the
   assignment. *)

InitCap == InitTB \/ InitLB

\* st.session_state.token_limiter.capacity = capacity (leaky_limiter alike)
SetCapacity(c) ==
    /\ ncalls < MaxAnyCalls
    /\ c # capacity
    /\ capacity' = c
    /\ ret' = [op |-> "set_capacity", time |-> now]
    /\ ncalls' = ncalls + 1
    /\ UNCHANGED <<now, max_requests, window_size, refill_rate, leak_rate,
                   fw_keys, ss, ss_ttl, tokens, last_refill, queue_size,
                   last_leak, history, pre, obs, run, pc, loc>>

NextCap ==
    \/ Tick
    \/ \E cost \in Costs : Any_IsAllowed("Alice", cost, 0)
    \/ Any_GetStatus
    \/ \E c \in 1..MaxLimit : SetCapacity(c)

SpecCap == InitCap /\ [][NextCap]_vars

\* C34: after the is_allowed or get_status call that follows the assignment
\* of a new, smaller capacity, the stored level is within 0 .. capacity (the
\* new one), and the snapshot of get_status shows no level above capacity
\* and no negative remaining.
C34_CapacityReplaced ==
    ret.op \in {"is_allowed", "get_status"} =>
        /\ run.algorithm = "Token Bucket" =>
               /\ tokens # Missing
               /\ 0 <= tokens[1] /\ tokens[1] <= capacity * Unit
               /\ ret.op = "get_status" =>
                      /\ ret.current_tokens <= capacity * 100
                      /\ ret.time_to_fill >= 0
        /\ run.algorithm = "Leaky Bucket" =>
               /\ queue_size # Missing
               /\ 0 <= queue_size[1] /\ queue_size[1] <= capacity * Unit
               /\ ret.op = "get_status" =>
                      /\ ret.queue_size <= capacity * 100
                      /\ ret.remaining >= 0

-----------------------------------------------------------------------------
(* Construction of a token or leaky bucket over the store as it is: empty
   the first time, holding the level of the earlier instance at a restart.
   The run begins before the first construction. *)

\* variant: the state is seeded at every construction
SeedAlways(exists, stored, seed) == Val(seed)

\* if not redis_client.exists(key): redis_client.set(..., seed)
SeedIfMissing(exists, stored, seed) == IF exists THEN stored ELSE Val(seed)

\* TokenBucketLimiter(capacity, refill_rate): __init__, _initialize_bucket
TB_Construct(cap, rate) ==
    /\ run.algorithm = "Token Bucket"
    /\ capacity' = cap
    /\ refill_rate' = rate
    /\ tokens' = SeedIfMissing(tokens # Missing, tokens, cap * Unit)
    /\ last_refill' = SeedIfMissing(tokens # Missing, last_refill, now)
    /\ pre' = [tokens |-> tokens, last_refill |-> last_refill]
    /\ UNCHANGED <<queue_size, last_leak, leak_rate>>

\* LeakyBucketLimiter(capacity, leak_rate): __init__, _initialize_bucket
LB_Construct(cap, rate) ==
    /\ run.algorithm = "Leaky Bucket"
    /\ capacity' = cap
    /\ leak_rate' = rate
    /\ queue_size' = SeedIfMissing(queue_size # Missing, queue_size, 0)
    /\ last_leak' = SeedIfMissing(queue_size # Missing, last_leak, now)
    /\ pre' = [queue_size |-> queue_size, last_leak |-> last_leak]
    /\ UNCHANGED <<tokens, last_refill, refill_rate>>

Construct(cap, rate) ==
    /\ ncalls < MaxAnyCalls
    /\ TB_Construct(cap, rate) \/ LB_Construct(cap, rate)
    /\ ret' = [op |-> "construct", time |-> now]
    /\ ncalls' = ncalls + 1
    /\ run' = RunAfter
    /\ UNCHANGED <<now, max_requests, window_size, fw_keys, ss, ss_ttl,
                   history, obs, pc, loc>>

\* an empty store and no limiter yet
InitSeed ==
    /\ \E a \in {"Token Bucket", "Leaky Bucket"} : run = RunOf(a)
    /\ InitCommon
    /\ max_requests = 0
    /\ window_size = 0
    /\ capacity = 0
    /\ refill_rate = 0
    /\ leak_rate = 0
    /\ obs = [refilled |-> 0, leaked |-> 0, cost |-> 0]
    /\ pc = <<>>
    /\ loc = <<>>

\* a limiter has been constructed
Constructed == ret.op # "none"

NextSeed ==
    \/ Tick
    \/ \E cap \in 1..MaxLimit, rate \in Rates : Construct(cap, rate)
    \/ Constructed /\ \E cost \in Costs : Any_IsAllowed("Alice", cost, 0)
    \/ Constructed /\ Any_GetStatus

SpecSeed == InitSeed /\ [][NextSeed]_vars

\* C35: construction over a store that holds the limiter's level leaves the
\* stored level and last-update time as they are; only when no level exists
\* is the state seeded: tokens to capacity, the queue to 0, the last-update
\* time to now.
C35_SeedOnFirstTouch ==
    ret.op = "construct" =>
        /\ run.algorithm = "Token Bucket" =>
               IF pre.tokens # Missing
               THEN tokens = pre.tokens /\ last_refill = pre.last_refill
               ELSE tokens = Val(capacity * Unit) /\ last_refill = Val(ret.time)
        /\ run.algorithm = "Leaky Bucket" =>
               IF pre.queue_size # Missing
               THEN queue_size = pre.queue_size /\ last_leak = pre.last_leak
               ELSE queue_size = Val(0) /\ last_leak = Val(ret.time)

\* C35 witness: a limiter is constructed, at a later time and with another
\* capacity, over a store whose level an earlier instance's is_allowed left
\* away from the seed value; level and last-update time are as they were
C35_Witness ==
    /\ ret.op = "construct"
    /\ run.prev_op = "is_allowed"
    /\ run.prev_time < ret.time
    /\ \/ /\ run.algorithm = "Token Bucket"
          /\ pre.tokens # Missing
          /\ tokens[1] # capacity * Unit
          /\ last_refill = Val(run.prev_time)
       \/ /\ run.algorithm = "Leaky Bucket"
          /\ pre.queue_size # Missing
          /\ queue_size[1] # 0
          /\ last_leak = Val(run.prev_time)

-----------------------------------------------------------------------------
(* TokenBucketLimiter, one caller, fixed configuration, no reset: what a run
   can spend.  The history list is the log of the calls, each with its cost,
   its decision and the time it was made. *)

NextTBR ==
    \/ Tick
    \/ \E cost \in Costs : TB_IsAllowed("Alice", cost)
    \/ TB_GetStatus

SpecTBR == InitTB /\ [][NextTBR]_vars

\* the cost, in sub-units, of the admitted calls among records made at a..b
RECURSIVE AdmittedCost(_, _, _)
AdmittedCost(records, a, b) ==
    IF records = <<>> THEN 0
    ELSE (IF /\ Head(records).status
             /\ a <= Head(records).timestamp
             /\ Head(records).timestamp <= b
          THEN Head(records).cost * Unit ELSE 0)
         + AdmittedCost(Tail(records), a, b)

\* C36: over any time interval of length T the total cost of the admitted
\* is_allowed calls is at most capacity + T * refill_rate.
C36_RateBound ==
    \A a \in 0..now : \A b \in a..now :
        AdmittedCost(history[TBHistoryKey], a, b)
            <= capacity * Unit + (b - a) * refill_rate

\* C36 witness: the bound is met over an interval of positive length: the
\* bucket was emptied at its start and what has been refilled since was
\* spent at its end
C36_Witness ==
    \E a \in 0..now : \E b \in (a + 1)..now :
        /\ AdmittedCost(history[TBHistoryKey], a, b)
               = capacity * Unit + (b - a) * refill_rate
        /\ AdmittedCost(history[TBHistoryKey], a, a) > 0
        /\ AdmittedCost(history[TBHistoryKey], b, b) > 0

====
